---------------------------- MODULE Spec2Model ----------------------------
(***************************************************************************)
(* Model of the frame path of xantrex-service.py: XantrexService's         *)
(* handle_can_frame (discovery, source filter, multi-frame reassembler,    *)
(* unmapped tracking, table dispatch) over the state __init__ builds.      *)
(*                                                                         *)
(* Numbers decoded with a scale are kept in thousandths (the decoders      *)
(* round to 3 decimals), bytes are integers 0..255, byte strings are       *)
(* sequences of bytes, Python's None is the record NoneV.                  *)
(***************************************************************************)
EXTENDS Integers, Sequences, FiniteSets, TLC

VARIABLES
    xantrex_sources,        \* dict SA -> function code
    multiframe_assemblies,  \* dict SA -> {len, need, seq, pgn, buf, deadline}
    SA_toSkip,              \* set of SAs classified as not Xantrex
    frame_count,            \* total frames received
    error_count,            \* total errors counted
    unmapped_seen,          \* set of unmapped DGNs already logged
    unmapped_counts,        \* dict DGN -> occurrences
    frame_counter,          \* self._frame_counter (state-check cadence)
    inverter,               \* exported values of the inverter service
    charger,                \* exported values of the charger service
    now,                    \* time.monotonic(), in seconds
    completed,              \* history: payloads the reassembler completed
    requests,               \* history: PGN requests sent by the frame path
    accepted,               \* history: SA -> payload lengths of the segments appended
    run,                    \* history: SA -> the announce and in-order segments observed
    last,                   \* history: the frame last handled and how the handler left
    logged,                 \* history: DGN -> number of "first seen" log lines
    summary,                \* the figures cleanup() logs, NoSummary before shutdown
    probe,                  \* the input of a decoder, identifier or send call and its result
    heartbeat_counter,      \* self.heartbeat_counter
    state_checks            \* history: runs of the /State derivations, and how many failed

vars == <<xantrex_sources, multiframe_assemblies, SA_toSkip, frame_count, error_count,
          unmapped_seen, unmapped_counts, frame_counter, inverter, charger, now,
          completed, requests, accepted, run, last, logged, summary, probe,
          heartbeat_counter, state_checks>>

-----------------------------------------------------------------------------
(* Bounds of the exploration *)

MaxFrames == 4
MaxTime == 3
MaxDispatchFrames == 3
MaxUnmappedFrames == 102
MaxQuirkFrames == 3
MaxStateFrames == 66

(* Program constants *)

MAX_UNMAPPED_DGNS == 100
DGN_TP_CM == 60671
DGN_TP_DT == 60415
DGN_CLAIM_1 == 126464
DGN_CLAIM_0 == 60928
DGN_FFCA == 131018
BAM == 32
MFG_XANTREX == 119
FUNC_INVERTER_CHARGER == 129
FUNC_INVERTER == 128
SA_PRIMARY == 66
SA_D0 == 208
STATE_CHECK_EVERY == 65

\* deadline = time.monotonic() + 2.0
TIMEOUT == 2

-----------------------------------------------------------------------------
(* Python values and containers *)

NoneV == [t |-> "None"]
Num(v) == [t |-> "num", v |-> v]
Str(s) == [t |-> "str", v |-> s]
\* the re.Match object re.search returns
MatchObj == [t |-> "re.Match"]

Min(a, b) == IF a <= b THEN a ELSE b

\* d[k] = v
Put(d, k, v) == [x \in (DOMAIN d) \cup {k} |-> IF x = k THEN v ELSE d[x]]

\* del d[k]
Del(d, k) == [x \in (DOMAIN d) \ {k} |-> d[x]]

\* seq[lo:hi] of Python (0-based, hi exclusive, clipped to the sequence)
Slice(seq, lo, hi) ==
    IF Min(hi, Len(seq)) <= lo THEN << >> ELSE SubSeq(seq, lo + 1, Min(hi, Len(seq)))

\* int.from_bytes(bytes, "little")
RECURSIVE FromBytesLE(_)
FromBytesLE(bytes) ==
    IF bytes = << >> THEN 0 ELSE Head(bytes) + 256 * FromBytesLE(Tail(bytes))

\* a | b on non-negative integers
RECURSIVE BitOr(_, _)
BitOr(a, b) ==
    IF a = 0 THEN b
    ELSE IF b = 0 THEN a
    ELSE (IF (a % 2 = 1) \/ (b % 2 = 1) THEN 1 ELSE 0) + 2 * BitOr(a \div 2, b \div 2)

-----------------------------------------------------------------------------
(* Text of a completed payload (process_multiFrames, classification) *)

\* "XANTREX"
XANTREX == <<88, 65, 78, 84, 82, 69, 88>>

\* payload.decode("ascii", "ignore"): bytes above 127 are dropped
IsAscii(b) == b < 128
DecodeAsciiIgnore(bytes) == SelectSeq(bytes, IsAscii)

\* str.strip(chars): leading and trailing characters of the set removed
RECURSIVE LStrip(_, _)
LStrip(txt, chars) ==
    IF txt # << >> /\ Head(txt) \in chars THEN LStrip(Tail(txt), chars) ELSE txt

RECURSIVE RStrip(_, _)
RStrip(txt, chars) ==
    IF txt # << >> /\ txt[Len(txt)] \in chars
    THEN RStrip(SubSeq(txt, 1, Len(txt) - 1), chars)
    ELSE txt

Strip(txt, chars) == RStrip(LStrip(txt, chars), chars)

\* the characters str.strip() removes from an ASCII string
Whitespace == {9, 10, 11, 12, 13, 28, 29, 30, 31, 32}

\* str.upper() on ASCII text
UpperChar(c) == IF c >= 97 /\ c <= 122 THEN c - 32 ELSE c
Upper(txt) == [i \in 1..Len(txt) |-> UpperChar(txt[i])]

\* needle in txt
Contains(txt, needle) ==
    \E i \in 1..(Len(txt) - Len(needle) + 1) :
        SubSeq(txt, i, i + Len(needle) - 1) = needle

\* txt_raw = payload.decode("ascii", "ignore").strip("\x00 ").strip()
TxtRaw(payload) == Strip(Strip(DecodeAsciiIgnore(payload), {0, 32}), Whitespace)

\* sanitize non-printables for log visibility
Printable(c) == IF c >= 32 /\ c < 127 THEN c ELSE 46
AssembledTxt(payload) == [i \in 1..Len(TxtRaw(payload)) |-> Printable(TxtRaw(payload)[i])]

\* "XANTREX" in txt_up
HasXantrexMarker(payload) == Contains(Upper(TxtRaw(payload)), XANTREX)

IsDigit(c) == c >= 48 /\ c <= 57

\* re.search(r'U3:0*([0-9]{1,2}\.[0-9]{2})', txt) finds a match
FirmwareMatch(txt) ==
    \E i \in 1..Len(txt) : \E z \in 0..Len(txt) : \E d \in {1, 2} :
        LET p == i + 3 + z IN
        /\ p + d + 2 <= Len(txt)
        /\ SubSeq(txt, i, i + 2) = <<85, 51, 58>>
        /\ \A k \in (i + 3)..(p - 1) : txt[k] = 48
        /\ \A k \in p..(p + d - 1) : IsDigit(txt[k])
        /\ txt[p + d] = 46
        /\ IsDigit(txt[p + d + 1]) /\ IsDigit(txt[p + d + 2])

-----------------------------------------------------------------------------
(* Sentinel-aware decoders; scale is given in thousandths (1.0 is 1000) *)

\* safe_u8(data, offset, scale)
safe_u8(data, offset, scale) ==
    IF Len(data) <= offset THEN NoneV
    ELSE IF data[offset + 1] = 255 THEN NoneV
    ELSE Num(data[offset + 1] * scale)

\* safe_u16(data, offset, scale), little endian
safe_u16(data, offset, scale) ==
    IF Len(data) < offset + 2 THEN NoneV
    ELSE LET raw == data[offset + 1] + 256 * data[offset + 2] IN
         IF raw = 65535 THEN NoneV ELSE Num(raw * scale)

\* safe_s8(data, offset, scale): 0x7F is the sentinel
safe_s8UnsignedSentinel(data, offset, scale) ==
    IF Len(data) <= offset THEN NoneV
    ELSE LET value == data[offset + 1] IN
         IF value = 255 THEN NoneV
         ELSE Num((IF value >= 128 THEN value - 256 ELSE value) * scale)
safe_s8(data, offset, scale) ==
    IF Len(data) <= offset THEN NoneV
    ELSE LET value == data[offset + 1] IN
         IF value = 127 THEN NoneV
         ELSE Num((IF value >= 128 THEN value - 256 ELSE value) * scale)

\* safe_s16(data, offset, scale), little endian: 0x7FFF is the sentinel
safe_s16(data, offset, scale) ==
    IF Len(data) < offset + 2 THEN NoneV
    ELSE LET raw == data[offset + 1] + 256 * data[offset + 2] IN
         IF raw = 32767 THEN NoneV
         ELSE Num((IF raw >= 32768 THEN raw - 65536 ELSE raw) * scale)

\* safe_u16(data, offset, scale, 'big')
safe_u16_be(data, offset, scale) ==
    IF Len(data) < offset + 2 THEN NoneV
    ELSE LET raw == 256 * data[offset + 1] + data[offset + 2] IN
         IF raw = 65535 THEN NoneV ELSE Num(raw * scale)

\* safe_s16(data, offset, scale, 'big')
safe_s16_be(data, offset, scale) ==
    IF Len(data) < offset + 2 THEN NoneV
    ELSE LET raw == 256 * data[offset + 1] + data[offset + 2] IN
         IF raw = 32767 THEN NoneV
         ELSE Num((IF raw >= 32768 THEN raw - 65536 ELSE raw) * scale)

\* a 32-bit result, kept as its 16-bit halves: (hi * 65536 + lo) * scale
Num32(hi, lo, scale) == [t |-> "num32", hi |-> hi, lo |-> lo, scale |-> scale]

\* safe_u32(data, offset, scale), little endian: 0xFFFFFFFF is the sentinel
safe_u32(data, offset, scale) ==
    IF Len(data) < offset + 4 THEN NoneV
    ELSE LET lo == data[offset + 1] + 256 * data[offset + 2]
             hi == data[offset + 3] + 256 * data[offset + 4]
         IN  IF hi = 65535 /\ lo = 65535 THEN NoneV ELSE Num32(hi, lo, scale)

\* safe_s32(data, offset, scale), little endian: 0x7FFFFFFF is the sentinel
safe_s32(data, offset, scale) ==
    IF Len(data) < offset + 4 THEN NoneV
    ELSE LET lo == data[offset + 1] + 256 * data[offset + 2]
             hi == data[offset + 3] + 256 * data[offset + 4]
         IN  IF hi = 32767 /\ lo = 65535 THEN NoneV
             ELSE Num32(IF hi >= 32768 THEN hi - 65536 ELSE hi, lo, scale)

\* round(x, 1) of a product of two values kept in thousandths; result in thousandths
Round1(micro) ==
    LET q == micro \div 100000
        r == micro % 100000
    IN  100 * (IF 2 * r > 100000 \/ (2 * r = 100000 /\ q % 2 = 1) THEN q + 1 ELSE q)

\* round(c, 1) of a value kept in thousandths
Round1Milli(milli) == Round1(milli * 1000)

\* what a decoder call leaves when it raises (IndexError, TypeError)
Raised == [t |-> "raise"]

\* RVC_INV_STATE.get(code, 0)
RVC_INV_STATE(code) ==
    CASE code = 1 -> 1
      [] code = 2 -> 9
      [] code = 4 -> 4
      [] code \in 5..11 -> 2
      [] OTHER -> 0

\* RVC_INV_STATE.get((int(safe_u8(d, 0) or 0)) & 0x0F, 0)
InverterState(data) ==
    LET v == safe_u8(data, 0, 1000)
        raw == IF v = NoneV THEN 0 ELSE v.v \div 1000
    IN  Num(1000 * RVC_INV_STATE(raw % 16))

\* f"{safe_u8(d, 4)}.{safe_u8(d, 5)}": always a string, "None.None" included
FormatVersion(data) ==
    [t |-> "fstr", major |-> safe_u8(data, 4, 1000), minor |-> safe_u8(data, 5, 1000)]

\* (d[0] & 0x1F) | ((d[1] & 0xE0) << 3) | ((d[1] & 0x03) << 8)
ProductMfgCode(data) ==
    IF Len(data) < 2 THEN Raised
    ELSE Num(1000 * BitOr(data[1] % 32,
                          BitOr((data[2] \div 32) * 256, (data[2] % 4) * 256)))

\* value * 0.4 of a decoder result: None * 0.4 raises TypeError
TimesPoint4(v) == IF v = NoneV THEN Raised ELSE Num((v.v * 4) \div 10)

-----------------------------------------------------------------------------
(* The state the handlers work on, as one record *)

Cur ==
    [xantrex_sources |-> xantrex_sources,
     multiframe_assemblies |-> multiframe_assemblies,
     SA_toSkip |-> SA_toSkip,
     frame_count |-> frame_count,
     error_count |-> error_count,
     unmapped_seen |-> unmapped_seen,
     unmapped_counts |-> unmapped_counts,
     frame_counter |-> frame_counter,
     inverter |-> inverter,
     charger |-> charger,
     completed |-> completed,
     requests |-> requests,
     accepted |-> accepted,
     logged |-> logged,
     state_checks |-> state_checks]

\* how a call leaves: ret is TRUE for "return True", FALSE when an exception escapes
Leave(s, how, ok) == [s |-> s, outcome |-> how, ret |-> ok]

-----------------------------------------------------------------------------
(* Multi-frame reassembler *)

\* the fast drop of process_multiFrames: known non-Xantrex TP traffic
FastDropOnlyData(s, dgn, src) == dgn = DGN_TP_DT /\ src \in s.SA_toSkip
FastDrop(s, dgn, src) == dgn \in {DGN_TP_CM, DGN_TP_DT} /\ src \in s.SA_toSkip

\* the entry an announce frame creates
NewAssembly(data, t) ==
    [len |-> FromBytesLE(Slice(data, 1, 3)),
     need |-> data[4],
     seq |-> 1,
     pgn |-> FromBytesLE(Slice(data, 5, 8)),
     buf |-> << >>,
     deadline |-> t + TIMEOUT]

\* ECFF: an announce is recognised when it is a BAM of 8 bytes
AnnounceIgnoredWhenShort(data) == Len(data) < 8
AnnounceIgnored(data) == Len(data) < 8 \/ data[1] # BAM

\* the timeout test of a data segment
TimedOutNever(st, t) == FALSE
TimedOut(st, t) == t > st.deadline

\* the sequence test of a data segment
SeqMismatchNever(st, data) == FALSE
SeqMismatch(st, data) == data[1] # st.seq

\* st after a data segment is appended
AppendedWithSeqByte(st, data, t) ==
    [st EXCEPT !.buf = st.buf \o Slice(data, 0, 8),
               !.seq = st.seq + 1,
               !.need = st.need - 1,
               !.deadline = t + TIMEOUT]
Appended(st, data, t) ==
    [st EXCEPT !.buf = st.buf \o Slice(data, 1, 8),
               !.seq = st.seq + 1,
               !.need = st.need - 1,
               !.deadline = t + TIMEOUT]

\* payload = bytes(st["buf"])[: st["len"]]
TrimmedPayload(st) == Slice(st.buf, 0, st.len)

\* the classification of a completed payload (entry already removed in s)
Classify(s, src, payload, sink) ==
    IF HasXantrexMarker(payload)
    THEN LET s1 == [s EXCEPT !.xantrex_sources =
                        IF src \in DOMAIN s.xantrex_sources THEN @
                        ELSE Put(@, src, FUNC_INVERTER_CHARGER)]
         IN  IF FirmwareMatch(AssembledTxt(payload))
             THEN IF <<"inverter", "/FirmwareVersion">> \in sink
                  THEN Leave(s1, "mf_done_raised", FALSE)
                  ELSE IF <<"charger", "/FirmwareVersion">> \in sink
                  THEN Leave([s1 EXCEPT !.inverter["/FirmwareVersion"] = MatchObj],
                             "mf_done_raised", FALSE)
                  ELSE Leave([s1 EXCEPT !.inverter["/FirmwareVersion"] = MatchObj,
                                        !.charger["/FirmwareVersion"] = MatchObj],
                             "mf_done_xantrex", TRUE)
             ELSE Leave(s1, "mf_done_xantrex", TRUE)
    ELSE Leave([s EXCEPT !.SA_toSkip = @ \cup {src}], "mf_done_other", TRUE)

\* EBFF for a source that has an entry
DataSegment(s, src, data, t, sink) ==
    LET st == s.multiframe_assemblies[src]
        dropped == [s EXCEPT !.multiframe_assemblies = Del(@, src),
                             !.accepted = Del(@, src)]
    IN
    IF TimedOut(st, t) THEN Leave(dropped, "mf_timeout", TRUE)
    ELSE IF Len(data) < 2 THEN Leave(dropped, "mf_short", TRUE)
    ELSE IF SeqMismatch(st, data) THEN Leave(dropped, "mf_seq", TRUE)
    ELSE LET st2 == Appended(st, data, t) IN
         IF st2.need = 0
         THEN Classify([dropped EXCEPT !.completed =
                            Append(@, [src |-> src, pgn |-> st2.pgn,
                                       payload |-> TrimmedPayload(st2)])],
                       src, TrimmedPayload(st2), sink)
         ELSE Leave([s EXCEPT !.multiframe_assemblies[src] = st2,
                              !.accepted[src] = Append(@, Len(data))],
                    "mf_append", TRUE)

\* process_multiFrames(dgn, src, data); outcome "mf_none" is its "return False"
process_multiFramesPassesOrphans(s, dgn, src, data, t, sink) ==
    IF FastDrop(s, dgn, src) THEN Leave(s, "mf_skip1", TRUE)
    ELSE IF dgn = DGN_TP_CM
    THEN IF AnnounceIgnored(data) THEN Leave(s, "mf_skip2", TRUE)
         ELSE Leave([s EXCEPT !.multiframe_assemblies = Put(@, src, NewAssembly(data, t)),
                              !.accepted = Put(@, src, << >>)],
                    "mf_start", TRUE)
    ELSE IF dgn = DGN_TP_DT /\ src \in DOMAIN s.multiframe_assemblies
    THEN DataSegment(s, src, data, t, sink)
    ELSE Leave(s, "mf_none", TRUE)
process_multiFramesKeepsBuffer(s, dgn, src, data, t, sink) ==
    IF FastDrop(s, dgn, src) THEN Leave(s, "mf_skip1", TRUE)
    ELSE IF dgn = DGN_TP_CM
    THEN IF AnnounceIgnored(data) THEN Leave(s, "mf_skip2", TRUE)
         ELSE IF src \in DOMAIN s.multiframe_assemblies
         THEN Leave([s EXCEPT !.multiframe_assemblies[src] =
                         [NewAssembly(data, t) EXCEPT !.buf = s.multiframe_assemblies[src].buf],
                              !.accepted = Put(@, src, << >>)],
                    "mf_restart", TRUE)
         ELSE Leave([s EXCEPT !.multiframe_assemblies = Put(@, src, NewAssembly(data, t)),
                              !.accepted = Put(@, src, << >>)],
                    "mf_start", TRUE)
    ELSE IF dgn = DGN_TP_DT
    THEN IF src \in DOMAIN s.multiframe_assemblies THEN DataSegment(s, src, data, t, sink)
         ELSE Leave(s, "mf_skip3", TRUE)
    ELSE Leave(s, "mf_none", TRUE)
process_multiFrames(s, dgn, src, data, t, sink) ==
    IF FastDrop(s, dgn, src) THEN Leave(s, "mf_skip1", TRUE)
    ELSE IF dgn = DGN_TP_CM
    THEN IF AnnounceIgnored(data) THEN Leave(s, "mf_skip2", TRUE)
         ELSE Leave([s EXCEPT !.multiframe_assemblies = Put(@, src, NewAssembly(data, t)),
                              !.accepted = Put(@, src, << >>)],
                    IF src \in DOMAIN s.multiframe_assemblies THEN "mf_restart" ELSE "mf_start", TRUE)
    ELSE IF dgn = DGN_TP_DT
    THEN IF src \notin DOMAIN s.multiframe_assemblies THEN Leave(s, "mf_skip3", TRUE)
         ELSE DataSegment(s, src, data, t, sink)
    ELSE Leave(s, "mf_none", TRUE)

-----------------------------------------------------------------------------
(* Dispatch table (the DGNs of the three maps; entries of the DGNs the      *)
(* frames of this model carry)                                              *)

\* the keys of self._combined_dgns
MappedDgns ==
    {51778, 59458, 60415, 61183, 65226, 117314, 126464, 130464, 130559, 130688,
     130690, 130722, 130723, 130739, 130749, 130750, 130751, 130762, 130781,
     130792, 130795, 130799, 130959, 130968, 130992, 130999, 131006, 131008,
     131009, 131010, 131013, 131014, 131015, 131016, 131017, 131018, 131019,
     131020, 131021, 131028, 131029, 131030, 131031, 131036, 131037, 131038,
     131039, 131057, 131068, 131069}

DERIVED_DGNS == {131030, 131037, 131018, 131020, 130792}

DGN_GRID_DETECTION == 131039

Item(path, f, off, scale, svc) ==
    [path |-> path, f |-> f, off |-> off, scale |-> scale, svc |-> svc]

\* an entry of COMMON_DGN_MAP fans out to the inverter and then the charger service
Common(path, f, off, scale) ==
    <<Item(path, f, off, scale, "inverter"), Item(path, f, off, scale, "charger")>>

\* an entry of CHARGER_DGN_MAP[0x1FFC9]: decoded when byte 0 names its variant
Variant(path, f, off, scale, when) ==
    [path |-> path, f |-> f, off |-> off, scale |-> scale, svc |-> "charger",
     when |-> when]

DGN_PRODUCT_ID == 130795
DGN_FFD4 == 131028
DGN_FFD7 == 131031
DGN_CHARGER_APS == 131017
DGN_DCBUS == 131020
DGN_AC_STATUS_2 == 131036
DGN_DC_STATUS == 130792
DGN_PASS_THROUGH == 131006

\* self._combined_dgns[dgn]
DgnItems(dgn) ==
    CASE dgn = DGN_TP_DT -> Common("/FirmwareVersion", "none", 0, 1000)
      [] dgn = DGN_GRID_DETECTION ->
             Common("/Ac/Grid/Status", "safe_u8", 0, 1000)
             \o Common("/Ac/Grid/PhaseAlignment", "safe_u8", 1, 1000)
             \o Common("/Ac/Grid/FaultFlags", "safe_u8", 2, 1000)
      [] dgn = DGN_PRODUCT_ID ->
             Common("/FirmwareVersion", "fw_version", 4, 1000)
             \o Common("/ProductId", "safe_u16", 2, 1000)
             \o Common("/Mgmt/ManufacturerCode", "mfg_code", 0, 1000)
      [] dgn = DGN_FFD4 ->
             <<Item("/State", "inv_state", 0, 1000, "inverter"),
               Item("/Ac/Out/LoadPercent", "safe_u8", 1, 1000, "inverter")>>
      [] dgn = DGN_DCBUS ->
             <<Item("/Dc/0/Voltage", "safe_u16", 0, 100, "inverter"),
               Item("/Dc/0/Current", "safe_u16", 2, 100, "inverter")>>
      [] dgn = DGN_CHARGER_APS ->
             <<Variant("/Battery/Instance", "var_u8", 0, 1000, 1),
               Variant("/Soc", "var_u8x04", 1, 1000, 1),
               Variant("/Battery/Soh", "var_u8x04", 2, 1000, 1),
               Variant("/Battery/Mode", "var_u8", 3, 1000, 1),
               Variant("/Battery/Voltage", "var_u16", 4, 10, 1),
               Variant("/Battery/Current", "var_u16", 6, 100, 1),
               Variant("/Battery/Power", "bat_power", 4, 10, 1),
               Variant("/Dc/Aux/Instance", "var_u8", 0, 1000, 2),
               Variant("/Dc/Aux/Voltage", "var_u16", 2, 50, 2),
               Variant("/Dc/Aux/Current", "var_u16", 4, 50, 2),
               Variant("/Dc/Aux/Temperature", "var_s8", 6, 1000, 2)>>
      [] dgn = DGN_FFCA ->
             Common("/Ac/In/L1/V", "safe_u16", 1, 50)
             \o Common("/Ac/In/L1/I", "safe_u16", 4, 100)
             \o Common("/Ac/In/L1/P", "ac_in_power", 1, 50)
             \o Common("/Ac/ActiveIn/L1/V", "safe_u16", 1, 50)
             \o Common("/Ac/ActiveIn/L1/I", "safe_u16", 4, 100)
             \o Common("/Ac/ActiveIn/L1/P", "ac_in_power", 1, 50)
      [] dgn = DGN_FFD7 ->
             <<Item("/Ac/Out/L1/V", "safe_u16", 1, 50, "inverter"),
               Item("/Ac/Out/L1/I", "safe_u8", 3, 100, "inverter"),
               Item("/Ac/Out/L1/F", "safe_u16_be", 5, 2000, "inverter"),
               Item("/Ac/Out/V", "safe_u16", 1, 50, "inverter"),
               Item("/Ac/Out/I", "safe_u8", 3, 100, "inverter"),
               Item("/Ac/Out/F", "safe_u16_be", 5, 2000, "inverter")>>
      [] dgn = DGN_AC_STATUS_2 ->
             <<Item("/Ac/In/V", "safe_u16", 0, 50, "inverter"),
               Item("/Ac/In/F", "safe_u16", 2, 10, "inverter"),
               Item("/Ac/In/L1/V", "safe_u16", 0, 50, "inverter"),
               Item("/Ac/In/L1/F", "safe_u16", 2, 10, "inverter"),
               Item("/Ac/In/L1/I", "safe_u16", 4, 100, "inverter"),
               Item("/Ac/Grid/L1/V", "safe_u16", 0, 50, "inverter"),
               Item("/Ac/Grid/L1/I", "safe_u16", 4, 100, "inverter"),
               Item("/Ac/Grid/L1/ApparentPower", "apparent_power", 0, 10, "inverter")>>
      [] dgn = DGN_DC_STATUS ->
             <<Item("/Dc/0/Voltage", "safe_u16_be", 0, 50, "inverter"),
               Item("/Dc/0/Current", "safe_s16_be", 2, 20, "inverter")>>
      [] dgn = DGN_PASS_THROUGH ->
             <<Item("/Ac/PassThrough/Active", "safe_u8", 0, 1000, "inverter"),
               Item("/Ac/PassThrough/LoadShare", "safe_u8", 1, 1000, "inverter"),
               Item("/Ac/PassThrough/SyncStatus", "safe_u8", 2, 1000, "inverter")>>
      [] OTHER -> << >>

\* None if either factor is None else round(a * b, 1), of two decoder results
RoundedProduct(a, b) ==
    IF a = NoneV \/ b = NoneV THEN NoneV ELSE Num(Round1(a.v * b.v))

\* the /Battery/Power decoder of 0x1FFC9
BatteryPower(data) ==
    LET v == safe_u16(data, 4, 10)
        c == safe_s16(data, 6, 100)
    IN  IF data[1] # 1 \/ v = NoneV \/ c = NoneV THEN NoneV
        ELSE Num(Round1(v.v * c.v))

\* decoder(data) of an entry; Raised when the call raises
Decode(item, data) ==
    CASE item.f = "safe_u8" -> safe_u8(data, item.off, item.scale)
      [] item.f = "safe_u16" -> safe_u16(data, item.off, item.scale)
      [] item.f = "inv_state" -> InverterState(data)
      [] item.f = "fw_version" -> FormatVersion(data)
      [] item.f = "mfg_code" -> ProductMfgCode(data)
      [] item.f = "var_u8" ->
             IF data[1] = item.when THEN safe_u8(data, item.off, item.scale) ELSE NoneV
      [] item.f = "var_u8x04" ->
             IF data[1] = item.when
             THEN TimesPoint4(safe_u8(data, item.off, item.scale)) ELSE NoneV
      [] item.f = "var_u16" ->
             IF data[1] = item.when THEN safe_u16(data, item.off, item.scale) ELSE NoneV
      [] item.f = "var_s8" ->
             IF data[1] = item.when THEN safe_s8(data, item.off, item.scale) ELSE NoneV
      [] item.f = "bat_power" -> BatteryPower(data)
      [] item.f = "safe_u16_be" -> safe_u16_be(data, item.off, item.scale)
      [] item.f = "safe_s16_be" -> safe_s16_be(data, item.off, item.scale)
      [] item.f = "ac_in_power" ->
             RoundedProduct(safe_u16(data, 1, 50), safe_u16(data, 4, 100))
      [] item.f = "apparent_power" ->
             RoundedProduct(safe_u16(data, 0, 10), safe_u16(data, 4, 10))
      [] OTHER -> NoneV

Sink(s, svc) == IF svc = "inverter" THEN s.inverter ELSE s.charger

\* service[path] = value
SinkWrite(s, svc, path, value) ==
    IF svc = "inverter"
    THEN [s EXCEPT !.inverter[path] = value]
    ELSE [s EXCEPT !.charger[path] = value]

\* the quirk rules of DGN 0x1FFD4 and 0x1FFD7
FrequencyPaths == {"/Ac/Out/L1/F", "/Ac/Out/F"}

\* the rules without the source test of 0x1FFD4
QuirkAllowsFfd4FromAnySource(dgn, src, item) ==
    /\ dgn = DGN_FFD4 => item.svc = "inverter"
    /\ dgn = DGN_FFD7 =>
           \/ (src = SA_D0 /\ item.path \in FrequencyPaths)
           \/ (src = SA_PRIMARY /\ item.path \notin FrequencyPaths)

\* the rules taking every point of 0x1FFD7 from the primary source
QuirkAllowsFfd7AllFromPrimary(dgn, src, item) ==
    /\ dgn = DGN_FFD4 => (src = SA_D0 /\ item.svc = "inverter")
    /\ dgn = DGN_FFD7 =>
           \/ (src = SA_D0 /\ item.path \in FrequencyPaths)
           \/ src = SA_PRIMARY

QuirkAllows(dgn, src, item) ==
    /\ dgn = DGN_FFD4 => (src = SA_D0 /\ item.svc = "inverter")
    /\ dgn = DGN_FFD7 =>
           \/ (src = SA_D0 /\ item.path \in FrequencyPaths)
           \/ (src = SA_PRIMARY /\ item.path \notin FrequencyPaths)

\* the loop leaving at the first write that fails
RECURSIVE RunItemsStopAtFailedWrite(_, _, _, _, _, _, _)
RunItemsStopAtFailedWrite(s, touched, items, i, dgn, src, env) ==
    IF i > Len(items) THEN [s |-> s, touched |-> touched]
    ELSE LET item == items[i]
             value == Decode(item, env.data)
         IN
         IF value = Raised
             THEN RunItemsStopAtFailedWrite([s EXCEPT !.error_count = @ + 1], touched,
                                            items, i + 1, dgn, src, env)
         ELSE IF value = NoneV \/ ~QuirkAllows(dgn, src, item)
             THEN RunItemsStopAtFailedWrite(s, touched, items, i + 1, dgn, src, env)
         ELSE IF <<item.svc, item.path>> \in env.sink
             THEN [s |-> s, touched |-> touched]
         ELSE RunItemsStopAtFailedWrite(SinkWrite(s, item.svc, item.path, value),
                                        touched \cup {item.svc}, items, i + 1,
                                        dgn, src, env)

\* the loop leaving at the first decoder that raises
RECURSIVE RunItemsStopAtRaise(_, _, _, _, _, _, _)
RunItemsStopAtRaise(s, touched, items, i, dgn, src, env) ==
    IF i > Len(items) THEN [s |-> s, touched |-> touched]
    ELSE LET item == items[i]
             value == Decode(item, env.data)
         IN
         IF value = Raised
             THEN [s |-> [s EXCEPT !.error_count = @ + 1], touched |-> touched]
         ELSE IF \/ value = NoneV
                 \/ ~QuirkAllows(dgn, src, item)
                 \/ <<item.svc, item.path>> \in env.sink
             THEN RunItemsStopAtRaise(s, touched, items, i + 1, dgn, src, env)
         ELSE RunItemsStopAtRaise(SinkWrite(s, item.svc, item.path, value),
                                  touched \cup {item.svc}, items, i + 1, dgn, src, env)

\* the for loop over dgn_items, from entry i on; acc.touched is services_touched
RECURSIVE RunItems(_, _, _, _, _, _, _)
RunItems(s, touched, items, i, dgn, src, env) ==
    IF i > Len(items) THEN [s |-> s, touched |-> touched]
    ELSE LET item == items[i]
             value == Decode(item, env.data)
         IN
         IF value = Raised
             THEN RunItems([s EXCEPT !.error_count = @ + 1], touched, items, i + 1,
                           dgn, src, env)
         ELSE IF value = NoneV
             THEN RunItems(s, touched, items, i + 1, dgn, src, env)
         ELSE IF item.path \notin DOMAIN Sink(s, item.svc)
             THEN RunItems(s, touched, items, i + 1, dgn, src, env)
         ELSE IF ~QuirkAllows(dgn, src, item)
             THEN RunItems(s, touched, items, i + 1, dgn, src, env)
         ELSE IF <<item.svc, item.path>> \in env.sink
             THEN RunItems(s, touched, items, i + 1, dgn, src, env)
         ELSE RunItems(SinkWrite(s, item.svc, item.path, value),
                       touched \cup {item.svc}, items, i + 1, dgn, src, env)

-----------------------------------------------------------------------------
(* Derived values and /State derivations *)

\* item.value: the attribute add_path sets at registration (the DGN-map loop
\* registers every decoded path first, with None)
ItemValue(path) == NoneV

\* writes in order, up to the first that raises (unregistered path or failing sink)
RECURSIVE TryWrites(_, _, _, _)
TryWrites(s, svc, writes, sink) ==
    IF writes = << >> THEN s
    ELSE LET w == Head(writes) IN
         IF w[1] \notin DOMAIN Sink(s, svc) \/ <<svc, w[1]>> \in sink THEN s
         ELSE TryWrites(SinkWrite(s, svc, w[1], w[2]), svc, Tail(writes), sink)

compute_power(s, dst_path, v_path, c_path, sink) ==
    IF \/ v_path \notin DOMAIN s.inverter
       \/ c_path \notin DOMAIN s.inverter
       \/ ItemValue(v_path) = NoneV
       \/ ItemValue(c_path) = NoneV
    THEN s
    ELSE TryWrites(s, "inverter",
                   <<<<dst_path, Num(Round1(ItemValue(v_path).v * ItemValue(c_path).v))>>>>,
                   sink)

compute_totals(s, base_path, vp, cp, pp, ip, aliases, sink) ==
    IF vp \notin DOMAIN s.inverter \/ cp \notin DOMAIN s.inverter THEN s
    ELSE LET v == s.inverter[vp]
             c == s.inverter[cp]
         IN  IF v = NoneV \/ c = NoneV THEN s
             ELSE IF v.t # "num" \/ c.t # "num" THEN s
             ELSE IF v.v = 0 \/ c.v = 0 THEN s
             ELSE LET p_total == Num(Round1(v.v * c.v))
                      i_total == Num(Round1Milli(c.v))
                  IN  TryWrites(s, "inverter",
                                <<<<pp, p_total>>, <<ip, i_total>>>> \o
                                [k \in 1..(2 * Len(aliases)) |->
                                    IF k % 2 = 1
                                    THEN <<aliases[(k + 1) \div 2][1], p_total>>
                                    ELSE <<aliases[k \div 2][2], i_total>>],
                                sink)

update_derived_values(s, sink) ==
    LET s1 == compute_power(s, "/Dc/0/Power", "/Dc/0/Voltage", "/Dc/0/Current", sink)
        s2 == compute_power(s1, "/Ac/In/L1/P", "/Ac/In/L1/V", "/Ac/In/L1/I", sink)
        s3 == compute_power(s2, "/Ac/ActiveIn/L1/P", "/Ac/ActiveIn/L1/V",
                            "/Ac/ActiveIn/L1/I", sink)
        s4 == compute_totals(s3, "/Ac/In", "/Ac/In/L1/V", "/Ac/In/L1/I",
                             "/Ac/In/P", "/Ac/In/I",
                             <<<<"/Ac/Grid/P", "/Ac/Grid/I">>>>, sink)
    IN  compute_totals(s4, "/Ac/Out", "/Ac/Out/L1/V", "/Ac/Out/L1/I",
                       "/Ac/Out/P", "/Ac/Out/I",
                       <<<<"/Ac/Out/Total/P", "/Ac/Out/Total/I">>>>, sink)

STATE_ASSISTING == 10
STATE_PASSTHRU == 8

state_is_assisting(s, sink) ==
    IF "/Ac/Grid/L1/I" \notin DOMAIN s.inverter \/ "/Dc/0/Current" \notin DOMAIN s.inverter
    THEN s
    ELSE LET grid_current == s.inverter["/Ac/Grid/L1/I"]
             battery_current == s.inverter["/Dc/0/Current"]
         IN  IF /\ grid_current.t = "num" /\ grid_current.v # 0
                /\ battery_current.t = "num" /\ battery_current.v < 0
             THEN TryWrites(s, "inverter", <<<<"/State", Num(STATE_ASSISTING * 1000)>>>>, sink)
             ELSE s

\* state_is_passthru(); ok is FALSE when it raises (a path the charger service does
\* not export, or .value of a plain number)
state_is_passthru(s, sink) ==
    IF "/Ac/PassThrough/Active" \notin DOMAIN s.charger THEN [s |-> s, ok |-> FALSE]
    ELSE IF s.charger["/Ac/PassThrough/Active"] # NoneV THEN [s |-> s, ok |-> FALSE]
    ELSE [s |-> s, ok |-> TRUE]

\* the try block of the state check leaves through its except clause
StateChecksRaise(s, sink) == ~state_is_passthru(s, sink).ok

\* the try block of the state check
StateChecks(s, sink) ==
    LET r == state_is_passthru(s, sink) IN
    IF r.ok THEN state_is_assisting(r.s, sink) ELSE r.s

-----------------------------------------------------------------------------
(* handle_can_frame *)

\* pgn = (can_id >> 8) & 0x3FFFF ; src = can_id & 0xFF
\* the identifier as its two 16-bit halves: pgn = (can_id >> 8) & 0x3FFFF
PgnOfHalvesMasked17(hi, lo) == (hi % 512) * 256 + lo \div 256
PgnOfHalves(hi, lo) == (hi % 1024) * 256 + lo \div 256
\* src = can_id & 0xFF
SrcOfHalves(hi, lo) == lo % 256
\* dgn = pgn
DgnOfPgn(pgn) == pgn

PgnOf(can_id) == PgnOfHalves(can_id \div 65536, can_id % 65536)
SrcOf(can_id) == SrcOfHalves(can_id \div 65536, can_id % 65536)

\* data = frame[8:8 + min(can_dlc, len(frame) - 8)]
DataOf(frame) == SubSeq(frame.payload, 1, Min(frame.can_dlc, Len(frame.payload)))

\* mfg = ((data[2] >> 5) | (data[3] << 3)) & 0x7FF
MfgOf(data) == BitOr(data[3] \div 32, data[4] * 8) % 2048

\* the identity-claim branch: the registry after it
DiscoveryReplaces(s, src, data) ==
    IF Len(data) >= 8 /\ MfgOf(data) = MFG_XANTREX /\ src \notin DOMAIN s.xantrex_sources
    THEN [s EXCEPT !.xantrex_sources = (src :> data[6])]
    ELSE s
DiscoveryOverwrites(s, src, data) ==
    IF Len(data) >= 8 /\ MfgOf(data) = MFG_XANTREX
    THEN [s EXCEPT !.xantrex_sources = Put(@, src, data[6])]
    ELSE s
Discovery(s, src, data) ==
    IF Len(data) >= 8 /\ MfgOf(data) = MFG_XANTREX /\ src \notin DOMAIN s.xantrex_sources
    THEN [s EXCEPT !.xantrex_sources = Put(@, src, data[6])]
    ELSE s

\* the source filter: a non-empty registry excludes the source
SourceSkippedNever(s, src) == FALSE
SourceSkipped(s, src) ==
    DOMAIN s.xantrex_sources # {} /\ src \notin DOMAIN s.xantrex_sources

\* the pre-filter letting a frame of exactly 90 V through
FfcaSkippedBelow90(dgn, data) ==
    /\ dgn = DGN_FFCA
    /\ LET v == safe_u16(data, 1, 50) IN v = NoneV \/ v.v < 90000

\* the pre-filter of DGN 0x1FFCA: AC-in voltage not available or at most 90 V
FfcaSkipped(dgn, data) ==
    /\ dgn = DGN_FFCA
    /\ LET v == safe_u16(data, 1, 50) IN v = NoneV \/ v.v <= 90000

\* the unknown-DGN branch
Unmapped(s, dgn, victim) ==
    LET counted == [s EXCEPT !.unmapped_counts =
                        Put(@, dgn, IF dgn \in DOMAIN @ THEN @[dgn] + 1 ELSE 1)]
        first == [counted EXCEPT !.logged =
                      Put(@, dgn, IF dgn \in DOMAIN @ THEN @[dgn] + 1 ELSE 1)]
    IN  IF dgn \in s.unmapped_seen THEN counted
        ELSE IF Cardinality(s.unmapped_seen \cup {dgn}) > MAX_UNMAPPED_DGNS
        THEN [first EXCEPT !.unmapped_seen = (@ \cup {dgn}) \ {victim}]
        ELSE [first EXCEPT !.unmapped_seen = @ \cup {dgn}]

\* svc['/Mgmt/LastUpdate'] = timestamp for the services touched; not inside a try
LastUpdateRaises(touched, sink) ==
    \E svc \in touched : <<svc, "/Mgmt/LastUpdate">> \in sink

\* the reset of the counter moved into the try block
AfterDispatchResetInTry(s, dgn, env) ==
    LET s1 == IF dgn \in DERIVED_DGNS THEN update_derived_values(s, env.sink) ELSE s
        s2 == [s1 EXCEPT !.frame_counter = @ + 1]
    IN  IF s2.frame_counter >= STATE_CHECK_EVERY
        THEN [StateChecks(s2, env.sink) EXCEPT
                 !.frame_counter = IF StateChecksRaise(s2, env.sink) THEN @ ELSE 0,
                 !.state_checks = [runs |-> @.runs + 1,
                                   failed |-> @.failed +
                                       (IF StateChecksRaise(s2, env.sink) THEN 1 ELSE 0)]]
        ELSE s2

\* after the dispatch loop: derived values, then the state-check counter
AfterDispatch(s, dgn, env) ==
    LET s1 == IF dgn \in DERIVED_DGNS THEN update_derived_values(s, env.sink) ELSE s
        s2 == [s1 EXCEPT !.frame_counter = @ + 1]
    IN  IF s2.frame_counter >= STATE_CHECK_EVERY
        THEN [StateChecks(s2, env.sink) EXCEPT
                 !.frame_counter = 0,
                 !.state_checks = [runs |-> @.runs + 1,
                                   failed |-> @.failed +
                                       (IF StateChecksRaise(s2, env.sink) THEN 1 ELSE 0)]]
        ELSE s2

\* the table lookup and what follows it
Dispatch(s, dgn, src, env) ==
    IF dgn \notin MappedDgns THEN Leave(Unmapped(s, dgn, env.victim), "unmapped", TRUE)
    ELSE LET r == RunItems(s, {}, DgnItems(dgn), 1, dgn, src, env)
             stamped == [r.s EXCEPT
                            !.inverter["/Mgmt/LastUpdate"] =
                                IF "inverter" \in r.touched THEN Num(env.t * 1000) ELSE @,
                            !.charger["/Mgmt/LastUpdate"] =
                                IF "charger" \in r.touched THEN Num(env.t * 1000) ELSE @]
         IN  IF LastUpdateRaises(r.touched, env.sink)
             THEN Leave(r.s, "lastupdate_raised", FALSE)
             ELSE Leave(AfterDispatch(stamped, dgn, env), "dispatched", TRUE)

\* from the source filter on
Filtered(s, dgn, src, env) ==
    LET s1 == IF DOMAIN s.xantrex_sources = {}
              THEN [s EXCEPT !.requests = @ + 1] ELSE s
    IN
    IF SourceSkipped(s1, src) THEN Leave(s1, "source_skipped", TRUE)
    ELSE LET mf == IF dgn \in {DGN_TP_CM, DGN_TP_DT}
                   THEN process_multiFrames(s1, dgn, src, env.data, env.t, env.sink)
                   ELSE Leave(s1, "mf_none", TRUE)
         IN  IF mf.outcome # "mf_none" THEN mf
             ELSE IF FfcaSkipped(dgn, env.data) THEN Leave(s1, "ffca_skipped", TRUE)
             ELSE Dispatch(s1, dgn, src, env)

\* self.error_count += 1 of the receive path (no data, short header, socket error)
CountErrorNot(s) == s
CountError(s) == [s EXCEPT !.error_count = @ + 1]

\* handle_can_frame(source, condition) on the frame the socket delivers
handle_can_frame(s0, frame, t, sink, victim) ==
    LET s == [s0 EXCEPT !.frame_count = @ + 1]
        failed == CountError(s)
    IN
    IF frame.rx # "frame" THEN Leave(failed, "recv_error", TRUE)
    ELSE IF Min(frame.can_dlc, Len(frame.payload)) = 0 THEN Leave(failed, "no_data", TRUE)
    ELSE LET data == DataOf(frame)
             dgn == PgnOf(frame.can_id)
             src == SrcOf(frame.can_id)
             env == [data |-> data, t |-> t, sink |-> sink, victim |-> victim]
         IN  IF dgn \in {DGN_CLAIM_1, DGN_CLAIM_0}
             THEN Leave(Discovery(s, src, data), "claim", TRUE)
             ELSE Filtered(s, dgn, src, env)

-----------------------------------------------------------------------------
(* The state __init__ builds *)

InverterInit ==
    [p \in {"/FirmwareVersion", "/Mgmt/LastUpdate", "/State",
            "/Ac/Grid/Status", "/Ac/Grid/PhaseAlignment", "/Ac/Grid/FaultFlags",
            "/Dc/0/Voltage", "/Dc/0/Current", "/Dc/0/Power",
            "/Ac/In/L1/V", "/Ac/In/L1/I", "/Ac/In/L1/P",
            "/Ac/ActiveIn/L1/V", "/Ac/ActiveIn/L1/I", "/Ac/ActiveIn/L1/P",
            "/Ac/In/P", "/Ac/In/I", "/Ac/Grid/L1/I",
            "/Ac/Out/L1/V", "/Ac/Out/L1/I", "/Ac/Out/P", "/Ac/Out/I",
            "/Ac/Out/Total/P", "/Ac/Out/Total/I",
            "/Ac/Out/LoadPercent", "/ProductId", "/Mgmt/ManufacturerCode",
            "/Ac/Out/L1/F", "/Ac/Out/V", "/Ac/Out/F",
            "/Ac/In/V", "/Ac/In/F", "/Ac/In/L1/F", "/Ac/Grid/L1/V",
            "/Ac/Grid/L1/ApparentPower", "/Ac/PassThrough/Active",
            "/Ac/PassThrough/LoadShare", "/Ac/PassThrough/SyncStatus",
            "/Mgmt/ProcessAlive", "/Status", "/Mode"} |->
        CASE p = "/FirmwareVersion" -> Str("2.14")
          [] p = "/Mgmt/ProcessAlive" -> Num(1000)
          [] p = "/Status" -> Str("ok")
          [] p = "/Mode" -> Num(4000)
          [] p = "/Mgmt/LastUpdate" -> Str("")
          [] p = "/ProductId" -> Num(41029000)
          [] p = "/Mgmt/ManufacturerCode" -> Num(119000)
          [] p \in {"/Ac/Out/Total/P", "/Ac/Out/Total/I"} -> Num(0)
          [] OTHER -> NoneV]

ChargerInit ==
    [p \in {"/FirmwareVersion", "/Mgmt/LastUpdate", "/State",
            "/Ac/Grid/Status", "/Ac/Grid/PhaseAlignment", "/Ac/Grid/FaultFlags",
            "/Dc/0/Voltage", "/Dc/0/Current",
            "/ProductId", "/Mgmt/ManufacturerCode",
            "/Battery/Instance", "/Soc", "/Battery/Soh", "/Battery/Mode",
            "/Battery/Voltage", "/Battery/Current", "/Battery/Power",
            "/Dc/Aux/Instance", "/Dc/Aux/Voltage", "/Dc/Aux/Current",
            "/Dc/Aux/Temperature",
            "/Ac/In/L1/V", "/Ac/In/L1/I", "/Ac/In/L1/P",
            "/Ac/ActiveIn/L1/V", "/Ac/ActiveIn/L1/I", "/Ac/ActiveIn/L1/P",
            "/Mgmt/ProcessAlive", "/Status"} |->
        CASE p = "/FirmwareVersion" -> Str("2.14")
          [] p = "/Mgmt/ProcessAlive" -> Num(1000)
          [] p = "/Status" -> Str("ok")
          [] p = "/Mgmt/LastUpdate" -> Str("")
          [] p = "/ProductId" -> Num(41029000)
          [] p = "/Mgmt/ManufacturerCode" -> Num(119000)
          [] OTHER -> NoneV]

NoFrame == [rx |-> "none", can_id |-> 0, can_dlc |-> 0, payload |-> << >>]
NoSummary == [shutdown |-> FALSE]
NoProbe == [kind |-> "none"]

\* the service after __init__
InitProgram ==
    /\ xantrex_sources = (SA_PRIMARY :> FUNC_INVERTER_CHARGER) @@ (SA_D0 :> FUNC_INVERTER)
    /\ multiframe_assemblies = << >>
    /\ SA_toSkip = {}
    /\ frame_count = 0
    /\ error_count = 0
    /\ unmapped_seen = {}
    /\ unmapped_counts = << >>
    /\ frame_counter = 0
    /\ inverter = InverterInit
    /\ charger = ChargerInit
    /\ now = 0
    /\ completed = << >>
    /\ requests = 0
    /\ accepted = << >>
    /\ run = << >>
    /\ last = [frame |-> NoFrame, outcome |-> "init", ret |-> TRUE]
    /\ logged = << >>
    /\ summary = NoSummary
    /\ heartbeat_counter = 0
    /\ state_checks = [runs |-> 0, failed |-> 0]

Init == InitProgram /\ probe = NoProbe

-----------------------------------------------------------------------------
(* The frames the bus delivers *)

\* a 29-bit identifier from priority, PGN and source address
CanId(prio, pgn, src) == prio * 67108864 + pgn * 256 + src

Frame(pgn, src, data) ==
    [rx |-> "frame", can_id |-> CanId(6, pgn, src), can_dlc |-> Len(data), payload |-> data]

SA_OTHER == 128
DGN_UNKNOWN == 130768

\* TP.CM announce: control byte, length (LE), packets, 0xFF, transported PGN (LE)
Announce(ctrl, len, n) == <<ctrl, len % 256, len \div 256, n, 255, 235, 254, 0>>

TxtXantrex == <<88, 65, 78, 84, 82, 69, 88>>
TxtU3 == <<85, 51, 58, 50, 46, 49, 52>>
TxtOther == <<65, 66, 67, 68, 69, 70, 71>>

\* an identity claim whose manufacturer code is 119 (bytes 2 and 3) and function func
ClaimXantrex(func) == <<1, 2, 224, 14, 0, func, 0, 0>>
ClaimOther == <<1, 2, 64, 9, 0, 129, 0, 0>>

SegmentationFrames(src) ==
    {Frame(DGN_TP_CM, src, Announce(BAM, 14, 2)),
     Frame(DGN_TP_CM, src, Announce(BAM, 5, 1)),
     Frame(DGN_TP_CM, src, Announce(16, 14, 2)),
     Frame(DGN_TP_DT, src, <<1>> \o TxtXantrex),
     Frame(DGN_TP_DT, src, <<1>> \o TxtOther),
     Frame(DGN_TP_DT, src, <<2>> \o TxtU3),
     Frame(DGN_TP_DT, src, <<1, 65, 66, 67>>)}

Frames ==
    SegmentationFrames(SA_PRIMARY)
    \cup {Frame(DGN_TP_CM, SA_OTHER, Announce(BAM, 5, 1)),
          Frame(DGN_TP_DT, SA_OTHER, <<1>> \o TxtOther),
          Frame(DGN_CLAIM_1, SA_OTHER, ClaimXantrex(FUNC_INVERTER_CHARGER)),
          Frame(DGN_CLAIM_0, SA_OTHER, ClaimOther),
          Frame(DGN_CLAIM_1, SA_OTHER, SubSeq(ClaimXantrex(FUNC_INVERTER_CHARGER), 1, 7)),
          Frame(DGN_CLAIM_0, SA_PRIMARY, ClaimXantrex(FUNC_INVERTER)),
          Frame(DGN_GRID_DETECTION, SA_PRIMARY, <<1, 255, 3>>),
          Frame(DGN_UNKNOWN, SA_PRIMARY, <<1, 2, 3>>),
          Frame(DGN_UNKNOWN, SA_OTHER, <<1, 2, 3>>),
          [Frame(DGN_TP_DT, SA_PRIMARY, << >>) EXCEPT !.can_dlc = 8],
          [rx |-> "short", can_id |-> 0, can_dlc |-> 0, payload |-> << >>]}

\* the sink writes that fail while one frame is handled
SinkFailures(frame) ==
    IF frame.rx = "frame" /\ PgnOf(frame.can_id) = DGN_TP_DT
        THEN {{}, {<<"inverter", "/FirmwareVersion">>}}
    ELSE IF frame.rx = "frame" /\ PgnOf(frame.can_id) = DGN_GRID_DETECTION
        THEN {{}, {<<"charger", "/Ac/Grid/Status">>}}
    ELSE {{}}

\* the element set.pop() may remove when the unmapped set is over its cap
PopChoices(frame) ==
    IF Cardinality(unmapped_seen) >= MAX_UNMAPPED_DGNS
    THEN unmapped_seen \cup {PgnOf(frame.can_id)}
    ELSE {0}

-----------------------------------------------------------------------------
(* Observation of announce + in-order segment runs (independent of the handler) *)

CompletedOf(hist, src) == {i \in 1..Len(hist) : hist[i].src = src}

Observe(r, frame, t) ==
    IF frame.rx # "frame" THEN r
    ELSE LET data == DataOf(frame)
             dgn == PgnOf(frame.can_id)
             src == SrcOf(frame.can_id)
         IN
         IF /\ dgn = DGN_TP_CM /\ Len(data) = 8 /\ data[1] = BAM
            /\ src \in DOMAIN xantrex_sources
            /\ data[4] >= 1
            /\ FromBytesLE(Slice(data, 1, 3)) <= 7 * data[4]
         THEN Put(r, src, [len |-> FromBytesLE(Slice(data, 1, 3)), n |-> data[4], k |-> 0,
                           bytes |-> << >>, t |-> t,
                           base |-> Cardinality(CompletedOf(completed, src))])
         ELSE IF src \notin DOMAIN r THEN r
         ELSE IF /\ dgn = DGN_TP_DT /\ Len(data) = 8
                 /\ r[src].k < r[src].n
                 /\ data[1] = r[src].k + 1
                 /\ t <= r[src].t + TIMEOUT
         THEN [r EXCEPT ![src].k = @ + 1, ![src].bytes = @ \o Slice(data, 1, 8), ![src].t = t]
         ELSE Del(r, src)

-----------------------------------------------------------------------------
(* Actions *)

Commit(r, frame) ==
    /\ xantrex_sources' = r.s.xantrex_sources
    /\ multiframe_assemblies' = r.s.multiframe_assemblies
    /\ SA_toSkip' = r.s.SA_toSkip
    /\ frame_count' = r.s.frame_count
    /\ error_count' = r.s.error_count
    /\ unmapped_seen' = r.s.unmapped_seen
    /\ unmapped_counts' = r.s.unmapped_counts
    /\ frame_counter' = r.s.frame_counter
    /\ inverter' = r.s.inverter
    /\ charger' = r.s.charger
    /\ completed' = r.s.completed
    /\ requests' = r.s.requests
    /\ accepted' = r.s.accepted
    /\ logged' = r.s.logged
    /\ state_checks' = r.s.state_checks
    /\ last' = [frame |-> frame, outcome |-> r.outcome, ret |-> r.ret]
    /\ UNCHANGED <<summary, probe, heartbeat_counter>>

\* the socket is readable: GLib calls handle_can_frame
HandleCanFrame ==
    /\ frame_count < MaxFrames
    /\ \E frame \in Frames : \E sink \in SinkFailures(frame) : \E victim \in PopChoices(frame) :
           /\ Commit(handle_can_frame(Cur, frame, now, sink, victim), frame)
           /\ run' = Observe(run, frame, now)
    /\ UNCHANGED now

\* time passes between two frames
Tick ==
    /\ now < MaxTime
    /\ now' = now + 1
    /\ UNCHANGED <<xantrex_sources, multiframe_assemblies, SA_toSkip, frame_count,
                   error_count, unmapped_seen, unmapped_counts, frame_counter, inverter,
                   charger, completed, requests, accepted, run, last, logged, summary, probe,
                   heartbeat_counter, state_checks>>

Next == HandleCanFrame \/ Tick

Spec == Init /\ [][Next]_vars

-----------------------------------------------------------------------------
(* cleanup(): the shutdown summary *)

\* sum(self.unmapped_counts.values())
RECURSIVE SumValues(_)
SumValues(d) ==
    IF DOMAIN d = {} THEN 0
    ELSE LET k == CHOOSE x \in DOMAIN d : TRUE IN d[k] + SumValues(Del(d, k))

\* successful_decodes = self.frame_count - unmapped_total - self.error_count
SuccessfulDecodesIgnoringErrors(s, unmapped_total) == s.frame_count - unmapped_total
SuccessfulDecodes(s, unmapped_total) == s.frame_count - unmapped_total - s.error_count

\* the figures of the summary block; mismatch is the warning of the failed assert
SummaryOf(s) ==
    LET unmapped_total == SumValues(s.unmapped_counts)
        successful_decodes == SuccessfulDecodes(s, unmapped_total)
    IN  [shutdown |-> TRUE,
         total |-> s.frame_count,
         decoded |-> successful_decodes,
         unmapped |-> unmapped_total,
         errors |-> s.error_count,
         mismatch |-> (unmapped_total + s.error_count + successful_decodes # s.frame_count)]

\* cleanup() runs once, at shutdown; it removes the socket watch
Cleanup ==
    /\ summary = NoSummary
    /\ summary' = SummaryOf(Cur)
    /\ UNCHANGED <<xantrex_sources, multiframe_assemblies, SA_toSkip, frame_count,
                   error_count, unmapped_seen, unmapped_counts, frame_counter, inverter,
                   charger, now, completed, requests, accepted, run, last, logged, probe,
                   heartbeat_counter, state_checks>>

-----------------------------------------------------------------------------
(* Frames of mapped DGNs: the table dispatch and the derived values *)

DispatchFrames ==
    {Frame(DGN_GRID_DETECTION, SA_PRIMARY, <<1, 255, 3>>),
     Frame(DGN_PRODUCT_ID, SA_PRIMARY, <<0, 0, 52, 18, 255, 255, 0, 0>>),
     Frame(DGN_PRODUCT_ID, SA_PRIMARY, <<119, 0, 52, 18, 2, 14, 0, 0>>),
     Frame(DGN_PRODUCT_ID, SA_PRIMARY, <<7>>),
     Frame(DGN_FFD4, SA_D0, <<255, 50>>),
     Frame(DGN_FFD4, SA_D0, <<2, 255>>),
     Frame(DGN_FFD4, SA_PRIMARY, <<2, 50>>),
     Frame(DGN_DCBUS, SA_PRIMARY, <<176, 4, 50, 0>>),
     Frame(DGN_DCBUS, SA_PRIMARY, <<176, 4, 255, 255>>),
     Frame(DGN_CHARGER_APS, SA_PRIMARY, <<1, 255, 50>>),
     Frame(DGN_CHARGER_APS, SA_PRIMARY, <<1, 80, 50, 2, 160, 5, 200, 0>>),
     Frame(DGN_UNKNOWN, SA_PRIMARY, <<1, 2, 3>>),
     [Frame(DGN_DCBUS, SA_PRIMARY, << >>) EXCEPT !.can_dlc = 4],
     [rx |-> "short", can_id |-> 0, can_dlc |-> 0, payload |-> << >>]}

\* the sink writes that fail while one of these frames is handled
DispatchSinkFailures(frame) ==
    IF frame.rx = "frame" /\ PgnOf(frame.can_id) = DGN_GRID_DETECTION
        THEN {{}, {<<"charger", "/Ac/Grid/Status">>},
              {<<"inverter", "/Ac/Grid/Status">>, <<"inverter", "/Ac/Grid/FaultFlags">>}}
    ELSE IF frame.rx = "frame" /\ PgnOf(frame.can_id) = DGN_DCBUS
        THEN {{}, {<<"inverter", "/Mgmt/LastUpdate">>}}
    ELSE {{}}

HandleDispatchFrame ==
    /\ summary = NoSummary
    /\ frame_count < MaxDispatchFrames
    /\ \E frame \in DispatchFrames : \E sink \in DispatchSinkFailures(frame) :
           Commit(handle_can_frame(Cur, frame, now, sink, 0), frame)
    /\ UNCHANGED <<now, run>>

NextDispatch == HandleDispatchFrame \/ Cleanup

SpecDispatch == Init /\ [][NextDispatch]_vars

-----------------------------------------------------------------------------
(* Frames of unmapped DGNs: more distinct ones than the tracker keeps *)

\* unmapped DGNs FirstUnmapped, FirstUnmapped + 1, ...
FirstUnmapped == 1000
UnmappedFrame(dgn) == Frame(dgn, SA_PRIMARY, <<1, 2, 3>>)

\* the bus carries one unmapped DGN more than the tracker's set keeps
UnmappedOnBus == FirstUnmapped .. (FirstUnmapped + MAX_UNMAPPED_DGNS)

\* the next DGN never received so far, or the first one again
UnmappedChoices ==
    {FirstUnmapped + Cardinality(DOMAIN unmapped_counts), FirstUnmapped}
    \cap UnmappedOnBus

HandleUnmappedFrame ==
    /\ summary = NoSummary
    /\ frame_count < MaxUnmappedFrames
    /\ \E dgn \in UnmappedChoices :
           \E victim \in PopChoices(UnmappedFrame(dgn)) :
               Commit(handle_can_frame(Cur, UnmappedFrame(dgn), now, {}, victim),
                      UnmappedFrame(dgn))
    /\ UNCHANGED <<now, run>>

NextUnmapped == HandleUnmappedFrame \/ Cleanup

SpecUnmapped == Init /\ [][NextUnmapped]_vars

-----------------------------------------------------------------------------
(* Frames the pre-filter and the quirk rules decide on, from three sources *)

\* 120 V / 5.0 A, exactly 90 V, voltage not available, no voltage field
FfcaFrames ==
    {Frame(DGN_FFCA, SA_PRIMARY, <<0, 96, 9, 0, 50, 0>>),
     Frame(DGN_FFCA, SA_PRIMARY, <<0, 8, 7, 0, 50, 0>>),
     Frame(DGN_FFCA, SA_PRIMARY, <<0, 255, 255, 0, 50, 0>>),
     Frame(DGN_FFCA, SA_PRIMARY, <<0, 8>>)}

QuirkSources == {SA_D0, SA_PRIMARY, SA_OTHER}

QuirkFrames ==
    FfcaFrames
    \cup {Frame(DGN_CLAIM_1, SA_OTHER, ClaimXantrex(FUNC_INVERTER_CHARGER))}
    \cup {Frame(DGN_FFD4, src, <<2, 50>>) : src \in QuirkSources}
    \cup {Frame(DGN_FFD7, src, <<1, 96, 9, 50, 0, 0, 30, 0>>) : src \in QuirkSources}

HandleQuirkFrame ==
    /\ frame_count < MaxQuirkFrames
    /\ \E frame \in QuirkFrames : Commit(handle_can_frame(Cur, frame, now, {}, 0), frame)
    /\ UNCHANGED <<now, run>>

NextQuirk == HandleQuirkFrame

SpecQuirk == Init /\ [][NextQuirk]_vars

-----------------------------------------------------------------------------
(* Frames feeding the /State derivations, enough of them to reach the check *)

\* 0x1FFDC: 120 V, 60 Hz, grid current 5.0 A; 0x1FEE8: 13 V, battery current
\* -10 A (big endian); 0x1FFBE: pass-through active 1 and 0
StateFrames ==
    {Frame(DGN_AC_STATUS_2, SA_PRIMARY, <<96, 9, 112, 23, 50, 0>>),
     Frame(DGN_DC_STATUS, SA_PRIMARY, <<1, 4, 254, 12>>),
     Frame(DGN_PASS_THROUGH, SA_PRIMARY, <<1, 0, 0>>),
     Frame(DGN_PASS_THROUGH, SA_PRIMARY, <<0, 0, 0>>)}

HandleStateFrame ==
    /\ frame_count < MaxStateFrames
    /\ \E frame \in StateFrames : Commit(handle_can_frame(Cur, frame, now, {}, 0), frame)
    /\ UNCHANGED <<now, run>>

NextState == HandleStateFrame

SpecState == Init /\ [][NextState]_vars

-----------------------------------------------------------------------------
(* Segmentation traffic of the primary source, short announces included *)

MaxSegmentFrames == 4

SegmentFrames ==
    SegmentationFrames(SA_PRIMARY)
    \cup {Frame(DGN_TP_CM, SA_PRIMARY, SubSeq(Announce(BAM, 14, 2), 1, 7)),
          Frame(DGN_TP_CM, SA_PRIMARY, <<BAM>>),
          Frame(DGN_TP_CM, SA_PRIMARY, Announce(BAM, 5, 0)),
          Frame(DGN_TP_CM, SA_PRIMARY, Announce(BAM, 14, 1)),
          Frame(DGN_TP_DT, SA_PRIMARY, <<1>>),
          [Frame(DGN_TP_DT, SA_PRIMARY, << >>) EXCEPT !.can_dlc = 8]}

HandleSegmentFrame ==
    /\ frame_count < MaxSegmentFrames
    /\ \E frame \in SegmentFrames : \E sink \in SinkFailures(frame) :
           /\ Commit(handle_can_frame(Cur, frame, now, sink, 0), frame)
           /\ run' = Observe(run, frame, now)
    /\ UNCHANGED now

NextSegment == HandleSegmentFrame \/ Tick

SpecSegment == Init /\ [][NextSegment]_vars

-----------------------------------------------------------------------------
(* The heartbeat: the periodic callback of start_heartbeat *)

MaxBeats == 2
MaxBeatFrames == 4

MODE_ON == 3
MODE_OFF == 4

\* sync_mode_from_status: /Mode follows /Status of the inverter service
sync_mode_from_status(inv) ==
    LET raw_status == inv["/Status"]
        is_off == raw_status = NoneV \/ raw_status = Num(0)
        target_mode == Num((IF is_off THEN MODE_OFF ELSE MODE_ON) * 1000)
    IN  IF inv["/Mode"] # target_mode THEN [inv EXCEPT !["/Mode"] = target_mode] ELSE inv

\* _publish_heartbeat(): counter, ProcessAlive and LastUpdate of both services, /Mode
HeartbeatSweeping ==
    /\ heartbeat_counter < MaxBeats
    /\ heartbeat_counter' = heartbeat_counter + 1
    /\ inverter' = sync_mode_from_status(
                       [inverter EXCEPT !["/Mgmt/ProcessAlive"] = Num((heartbeat_counter + 1) * 1000),
                                        !["/Mgmt/LastUpdate"] = Num(now * 1000)])
    /\ charger' = [charger EXCEPT !["/Mgmt/ProcessAlive"] = Num((heartbeat_counter + 1) * 1000),
                                  !["/Mgmt/LastUpdate"] = Num(now * 1000)]
    /\ multiframe_assemblies' =
           [src \in {x \in DOMAIN multiframe_assemblies :
                         now <= multiframe_assemblies[x].deadline} |-> multiframe_assemblies[src]]
    /\ UNCHANGED <<xantrex_sources, SA_toSkip, frame_count, error_count, unmapped_seen,
                   unmapped_counts, frame_counter, now, completed, requests, accepted, run,
                   last, logged, summary, probe, state_checks>>
Heartbeat ==
    /\ heartbeat_counter < MaxBeats
    /\ heartbeat_counter' = heartbeat_counter + 1
    /\ inverter' = sync_mode_from_status(
                       [inverter EXCEPT !["/Mgmt/ProcessAlive"] = Num((heartbeat_counter + 1) * 1000),
                                        !["/Mgmt/LastUpdate"] = Num(now * 1000)])
    /\ charger' = [charger EXCEPT !["/Mgmt/ProcessAlive"] = Num((heartbeat_counter + 1) * 1000),
                                  !["/Mgmt/LastUpdate"] = Num(now * 1000)]
    /\ UNCHANGED <<xantrex_sources, multiframe_assemblies, SA_toSkip, frame_count, error_count,
                   unmapped_seen, unmapped_counts, frame_counter, now, completed, requests,
                   accepted, run, last, logged, summary, probe, state_checks>>

\* two registered sources interleave segmentation and other traffic
BeatFrames ==
    {Frame(DGN_TP_CM, SA_PRIMARY, Announce(BAM, 14, 2)),
     Frame(DGN_TP_DT, SA_PRIMARY, <<1>> \o TxtXantrex),
     Frame(DGN_TP_DT, SA_PRIMARY, <<2>> \o TxtU3),
     Frame(DGN_TP_CM, SA_D0, Announce(BAM, 7, 1)),
     Frame(DGN_TP_DT, SA_D0, <<1>> \o TxtXantrex),
     Frame(DGN_CLAIM_1, SA_D0, ClaimXantrex(FUNC_INVERTER_CHARGER)),
     Frame(DGN_UNKNOWN, SA_PRIMARY, <<1, 2, 3>>),
     Frame(DGN_GRID_DETECTION, SA_PRIMARY, <<1, 255, 3>>),
     Frame(DGN_TP_DT, SA_OTHER, <<1>> \o TxtOther)}

HandleBeatFrame ==
    /\ frame_count < MaxBeatFrames
    /\ \E frame \in BeatFrames :
           /\ Commit(handle_can_frame(Cur, frame, now, {}, 0), frame)
           /\ run' = Observe(run, frame, now)
    /\ UNCHANGED now

NextBeat == HandleBeatFrame \/ Tick \/ Heartbeat

SpecBeat == Init /\ [][NextBeat]_vars

-----------------------------------------------------------------------------
(* The decoders and the identifier decomposition, applied to drawn inputs *)

MaxProbeOffset == 1

ProbeBytes == {0, 127, 128, 255}
ProbeScales == {1000, 50, 2000}
DecoderNames == {"safe_u8", "safe_s8", "safe_u16", "safe_u16_be", "safe_s16", "safe_s16_be",
                 "safe_u32", "safe_s32"}

\* the bytes the struct format of each decoder reads
FieldWidth(f) ==
    CASE f \in {"safe_u8", "safe_s8"} -> 1
      [] f \in {"safe_u16", "safe_u16_be", "safe_s16", "safe_s16_be"} -> 2
      [] OTHER -> 4

\* the call f(data, offset, scale), byteorder='big' for the _be names
ApplyDecoder(f, data, offset, scale) ==
    CASE f = "safe_u8" -> safe_u8(data, offset, scale)
      [] f = "safe_s8" -> safe_s8(data, offset, scale)
      [] f = "safe_u16" -> safe_u16(data, offset, scale)
      [] f = "safe_u16_be" -> safe_u16_be(data, offset, scale)
      [] f = "safe_s16" -> safe_s16(data, offset, scale)
      [] f = "safe_s16_be" -> safe_s16_be(data, offset, scale)
      [] f = "safe_u32" -> safe_u32(data, offset, scale)
      [] OTHER -> safe_s32(data, offset, scale)

Pending == [t |-> "pending"]

\* the bytes before the field: offset bytes, all 0x00 or all 0xFF
ProbePads(offset) == {[i \in 1..offset |-> pad] : pad \in {0, 255}}

DecoderInputs ==
    UNION {UNION {{[kind |-> "decode", f |-> f, data |-> before \o field, offset |-> offset,
                    scale |-> scale, out |-> Pending] :
                       before \in ProbePads(offset), field \in [1..FieldWidth(f) -> ProbeBytes],
                       scale \in ProbeScales} :
                  offset \in 0..MaxProbeOffset} : f \in DecoderNames}

ProbePgns == {0, 1, 60671, 131018, 131071, 131072, 196607, 262143}
ProbeSources == {0, 66, 208, 255}

\* the upper and lower 16 bits of an identifier: flag bits 29..31, priority 26..28,
\* PGN 8..25, source address 0..7
CanIdHi(flags, prio, pgn) == flags * 8192 + prio * 1024 + pgn \div 256
CanIdLo(pgn, src) == (pgn % 256) * 256 + src

CanIdInputs ==
    {[kind |-> "can_id", flags |-> flags, prio |-> prio, pgn |-> pgn, src |-> src,
      hi |-> CanIdHi(flags, prio, pgn), lo |-> CanIdLo(pgn, src), out |-> Pending] :
         flags \in 0..7, prio \in 0..7, pgn \in ProbePgns, src \in ProbeSources}

InitProbe == InitProgram /\ probe \in DecoderInputs \cup CanIdInputs

progVars == <<xantrex_sources, multiframe_assemblies, SA_toSkip, frame_count, error_count,
              unmapped_seen, unmapped_counts, frame_counter, inverter, charger, now,
              completed, requests, accepted, run, last, logged, summary, heartbeat_counter,
              state_checks>>

\* one decoder call
ProbeDecoder ==
    /\ probe.kind = "decode"
    /\ probe.out = Pending
    /\ probe' = [probe EXCEPT !.out = ApplyDecoder(probe.f, probe.data, probe.offset, probe.scale)]
    /\ UNCHANGED progVars

\* the decomposition at the head of the frame path
ProbeCanId ==
    /\ probe.kind = "can_id"
    /\ probe.out = Pending
    /\ probe' = [probe EXCEPT !.out =
                    LET pgn == PgnOfHalves(probe.hi, probe.lo)
                    IN  [pgn |-> pgn, src |-> SrcOfHalves(probe.hi, probe.lo), dgn |-> DgnOfPgn(pgn)]]
    /\ UNCHANGED progVars

NextProbe == ProbeDecoder \/ ProbeCanId

SpecProbe == InitProbe /\ [][NextProbe]_vars

-----------------------------------------------------------------------------
(* send_pgn_request: the retry loop around socket.send *)

SEND_ATTEMPTS == 6
REQUEST_ID == 417988608

\* the PGNs the service requests (request_initial_pgns and the frame path)
RequestedPgns == {126464, 130795, 131038, 131031, 131028, 131029, 131018, 131015, 130799,
                  60415, 60928}

\* little-endian bytes of the PGN, 3 of them, padded with 0xFF to 8
RequestData(pgn) ==
    <<pgn % 256, (pgn \div 256) % 256, (pgn \div 65536) % 256, 255, 255, 255, 255, 255>>

\* can_id = 0x18EA0000 | (da << 8) | sa, DLC 8
RequestFrame(pgn, global_request) ==
    LET da == IF global_request THEN 255 ELSE SA_PRIMARY
    IN  [rx |-> "frame", can_id |-> REQUEST_ID + da * 256 + SA_PRIMARY, can_dlc |-> 8,
         payload |-> RequestData(pgn)]

\* a call that has built its frame and enters the loop
SendInputs ==
    {[kind |-> "send", frame |-> RequestFrame(pgn, global_request), attempt |-> 0,
      attempts |-> 0, sleeps |-> 0, sent |-> FALSE, pc |-> "loop", ret |-> "none"] :
         pgn \in RequestedPgns, global_request \in BOOLEAN}

\* what socket.send(frame) does in one attempt
SendResults == {"sent", "OSError", "error"}

\* for attempt in range(6)
LoopContinuesAlways(attempt) == TRUE
LoopContinues(attempt) == attempt < SEND_ATTEMPTS

\* one pass of the loop body, or the fall off its end
send_step(p, result) ==
    IF ~LoopContinues(p.attempt)
    THEN [p EXCEPT !.pc = "done", !.ret = "None"]
    ELSE LET tried == [p EXCEPT !.attempts = @ + 1] IN
         CASE result = "sent" -> [tried EXCEPT !.sent = TRUE, !.pc = "done", !.ret = "True"]
           [] result = "OSError" ->
                  IF p.attempt < 6
                  THEN [tried EXCEPT !.sleeps = @ + 1, !.attempt = @ + 1]
                  ELSE [tried EXCEPT !.pc = "done", !.ret = "False"]
           [] OTHER -> [tried EXCEPT !.pc = "done", !.ret = "None"]

SendStep ==
    /\ probe.kind = "send"
    /\ probe.pc = "loop"
    /\ \E result \in SendResults : probe' = send_step(probe, result)
    /\ UNCHANGED progVars

InitSend == InitProgram /\ probe \in SendInputs

NextSend == SendStep

SpecSend == InitSend /\ [][NextSend]_vars /\ WF_vars(NextSend)

-----------------------------------------------------------------------------
(* The state-check cadence: a long run of dispatched frames, then mixed traffic *)

WarmUpFrames == 62
MaxCounterFrames == 68

\* a mapped DGN whose fields are all "not available": dispatched, nothing written
QuietFrame == Frame(DGN_GRID_DETECTION, SA_PRIMARY, <<255, 255, 255>>)

\* one frame for every way handle_can_frame is left
CounterFrames ==
    {QuietFrame,
     Frame(DGN_GRID_DETECTION, SA_PRIMARY, <<1, 255, 3>>),
     Frame(DGN_PRODUCT_ID, SA_PRIMARY, <<7>>),
     [rx |-> "short", can_id |-> 0, can_dlc |-> 0, payload |-> << >>],
     [Frame(DGN_GRID_DETECTION, SA_PRIMARY, << >>) EXCEPT !.can_dlc = 3],
     Frame(DGN_CLAIM_0, SA_OTHER, ClaimOther),
     Frame(DGN_UNKNOWN, SA_OTHER, <<1, 2, 3>>),
     Frame(DGN_TP_CM, SA_PRIMARY, Announce(BAM, 14, 2)),
     Frame(DGN_FFCA, SA_PRIMARY, <<0, 8, 7, 0, 50, 0>>),
     Frame(DGN_UNKNOWN, SA_PRIMARY, <<1, 2, 3>>)}

\* the sink writes that fail while one frame is handled
CounterSinkFailures(frame) ==
    IF frame.rx = "frame" /\ PgnOf(frame.can_id) = DGN_GRID_DETECTION
    THEN {{}, {<<"charger", "/Mgmt/LastUpdate">>}}
    ELSE {{}}

\* the bus delivers quiet frames first and any frame afterwards
HandleCounterFrame ==
    /\ frame_count < MaxCounterFrames
    /\ \E frame \in (IF frame_count < WarmUpFrames THEN {QuietFrame} ELSE CounterFrames) :
           \E sink \in CounterSinkFailures(frame) :
               Commit(handle_can_frame(Cur, frame, now, sink, 0), frame)
    /\ UNCHANGED <<now, run>>

NextCounter == HandleCounterFrame

SpecCounter == Init /\ [][NextCounter]_vars

-----------------------------------------------------------------------------
(* Properties *)

\* the step handles a frame; last' holds it
Handled == frame_count' = frame_count + 1
StepFrame == last'.frame
StepData == DataOf(last'.frame)
StepDgn == PgnOf(last'.frame.can_id)
StepSrc == SrcOf(last'.frame.can_id)
\* the frame has a header and at least one data byte
HasData(frame) == frame.rx = "frame" /\ Min(frame.can_dlc, Len(frame.payload)) > 0
IsClaimDgn(dgn) == dgn \in {DGN_CLAIM_1, DGN_CLAIM_0}
IsSegmentationDgn(dgn) == dgn \in {DGN_TP_CM, DGN_TP_DT}
SinksUnchanged == inverter' = inverter /\ charger' = charger
LastData == DataOf(last.frame)
LastDgn == PgnOf(last.frame.can_id)
LastSrc == SrcOf(last.frame.can_id)

\* C1: after an announce (control byte 0x20, length L, N >= 1 segments, L <= 7N) from
\* a registered source and its N 8-byte segments with sequence bytes 1..N, each
\* before the deadline, exactly one payload has been completed for the source, it is
\* the first L bytes of the segments' data bytes, and the source has no entry.
C1_AnnouncedRunCompletes ==
    \A src \in DOMAIN run :
        run[src].k = run[src].n =>
            /\ Cardinality(CompletedOf(completed, src)) = run[src].base + 1
            /\ \E i \in CompletedOf(completed, src) :
                   /\ \A j \in CompletedOf(completed, src) : j <= i
                   /\ completed[i].payload = Slice(run[src].bytes, 0, run[src].len)
            /\ src \notin DOMAIN multiframe_assemblies

RECURSIVE DataBytes(_)
DataBytes(lens) ==
    IF lens = << >> THEN 0 ELSE (Min(Head(lens), 8) - 1) + DataBytes(Tail(lens))

C3_SequenceMismatchDrops ==
    [][(/\ Handled
        /\ HasData(StepFrame)
        /\ StepDgn = DGN_TP_DT
        /\ StepSrc \in DOMAIN multiframe_assemblies
        /\ StepData[1] # multiframe_assemblies[StepSrc].seq)
       => (/\ StepSrc \notin DOMAIN multiframe_assemblies'
           /\ completed' = completed
           /\ inverter'["/FirmwareVersion"] = inverter["/FirmwareVersion"]
           /\ charger'["/FirmwareVersion"] = charger["/FirmwareVersion"]
           /\ xantrex_sources' = xantrex_sources
           /\ SA_toSkip' = SA_toSkip
           /\ last'.ret = TRUE)]_vars

C3_Witness ==
    /\ last.outcome = "mf_seq"
    /\ LastDgn = DGN_TP_DT
    /\ LastData[1] = 2
    /\ frame_count = 2
    /\ LastSrc \notin DOMAIN multiframe_assemblies

C5_UnregisteredSourceDropped ==
    [][(/\ Handled
        /\ StepFrame.rx = "frame"
        /\ ~IsClaimDgn(StepDgn)
        /\ DOMAIN xantrex_sources # {}
        /\ StepSrc \notin DOMAIN xantrex_sources)
       => (/\ SinksUnchanged
           /\ multiframe_assemblies' = multiframe_assemblies
           /\ SA_toSkip' = SA_toSkip
           /\ unmapped_counts' = unmapped_counts
           /\ unmapped_seen' = unmapped_seen)]_vars

C5_Witness ==
    /\ last.outcome = "source_skipped"
    /\ LastDgn = DGN_UNKNOWN
    /\ LastSrc \notin DOMAIN xantrex_sources
    /\ unmapped_counts = << >>

\* C6: a completed payload in which the text search finds no vendor marker (the
\* ASCII text of the payload, upper-cased, does not contain XANTREX) adds its source
\* to the skip-set; a source in the skip-set stays in it, and every 0x0ECFF or
\* 0x0EBFF frame from it is consumed (return True, no sink or registry change)
\* without creating or modifying a reassembly entry.
C6_SkipSetIsPermanent ==
    [][/\ (/\ Len(completed') = Len(completed) + 1
           /\ ~HasXantrexMarker(completed'[Len(completed')].payload))
          => completed'[Len(completed')].src \in SA_toSkip'
       /\ SA_toSkip \subseteq SA_toSkip'
       /\ (/\ Handled
           /\ HasData(StepFrame)
           /\ IsSegmentationDgn(StepDgn)
           /\ StepSrc \in SA_toSkip)
          => (/\ multiframe_assemblies' = multiframe_assemblies
              /\ completed' = completed
              /\ SinksUnchanged
              /\ xantrex_sources' = xantrex_sources
              /\ last'.ret = TRUE)]_vars

C6_Witness ==
    /\ last.outcome = "mf_skip1"
    /\ LastDgn = DGN_TP_CM
    /\ LastData[1] = BAM
    /\ LastSrc \in SA_toSkip
    /\ Len(completed) = 1
    /\ ~HasXantrexMarker(completed[1].payload)
    /\ LastSrc \notin DOMAIN multiframe_assemblies

\* C7: the skip-set and the addresses of the registry are disjoint.
C7_SkipSetDisjointFromRegistry == SA_toSkip \cap DOMAIN xantrex_sources = {}

\* C8: no step removes an address from the registry or from the skip-set.
C8_RegistryAndSkipSetGrow ==
    [][/\ DOMAIN xantrex_sources \subseteq DOMAIN xantrex_sources'
       /\ SA_toSkip \subseteq SA_toSkip']_vars

C8_Witness ==
    /\ SA_OTHER \in DOMAIN xantrex_sources
    /\ SA_PRIMARY \in DOMAIN xantrex_sources
    /\ SA_toSkip # {}

\* the 11-bit manufacturer code of an identity claim
ClaimMfg(data) == ((data[3] \div 32) + (data[4] * 8)) % 2048

ClaimOnlyDiscovers ==
    /\ multiframe_assemblies' = multiframe_assemblies
    /\ completed' = completed
    /\ SA_toSkip' = SA_toSkip
    /\ unmapped_counts' = unmapped_counts
    /\ unmapped_seen' = unmapped_seen
    /\ SinksUnchanged
    /\ frame_counter' = frame_counter
    /\ error_count' = error_count
    /\ last'.ret = TRUE

\* C10 as stated: an identity-claim frame only runs discovery; its source is recorded
\* with role = payload byte 5 exactly when the payload has 8 bytes and the
\* manufacturer code is 119, otherwise the registry is unchanged.
C10_ClaimRecordsRole ==
    [][(Handled /\ HasData(StepFrame) /\ IsClaimDgn(StepDgn))
       => (/\ ClaimOnlyDiscovers
           /\ IF Len(StepData) >= 8 /\ ClaimMfg(StepData) = 119
              THEN /\ StepSrc \in DOMAIN xantrex_sources'
                   /\ xantrex_sources'[StepSrc] = StepData[6]
              ELSE xantrex_sources' = xantrex_sources)]_vars

\* C10 amended: an identity-claim frame only runs discovery; its source is recorded
\* with role = payload byte 5 exactly when the payload has 8 bytes, the manufacturer
\* code is 119 and the source is not yet in the registry; otherwise (also for a
\* source already registered, whose role is kept) the registry is unchanged.
C10_ClaimRecordsNewSource ==
    [][(Handled /\ HasData(StepFrame) /\ IsClaimDgn(StepDgn))
       => (/\ ClaimOnlyDiscovers
           /\ IF /\ Len(StepData) >= 8 /\ ClaimMfg(StepData) = 119
                 /\ StepSrc \notin DOMAIN xantrex_sources
              THEN xantrex_sources' = Put(xantrex_sources, StepSrc, StepData[6])
              ELSE xantrex_sources' = xantrex_sources)]_vars

C10_Witness ==
    /\ last.outcome = "claim"
    /\ LastSrc = SA_OTHER
    /\ ClaimMfg(LastData) = 119
    /\ SA_OTHER \in DOMAIN xantrex_sources
    /\ xantrex_sources[SA_OTHER] = LastData[6]

\* the points of a sink other than the given ones are unchanged by the step
InverterKeeps(except) == \A p \in DOMAIN inverter \ except : inverter'[p] = inverter[p]
ChargerKeeps(except) == \A p \in DOMAIN charger \ except : charger'[p] = charger[p]

\* C11: a frame of DGN 0x0ECFF or 0x0EBFF never reaches the dispatch-table lookup:
\* the step ends in the receive path, the source filter or the reassembler, no point
\* is written through a dispatch entry (only the reassembler may write the match
\* object to /FirmwareVersion), no LastUpdate is stamped, the state-check counter
\* does not advance and no unmapped counter changes.
C11_SegmentationNeverDispatched ==
    [][(Handled /\ StepFrame.rx = "frame" /\ IsSegmentationDgn(StepDgn))
       => (/\ last'.outcome \notin {"dispatched", "unmapped", "lastupdate_raised",
                                    "ffca_skipped"}
           /\ unmapped_counts' = unmapped_counts
           /\ unmapped_seen' = unmapped_seen
           /\ frame_counter' = frame_counter
           /\ InverterKeeps({"/FirmwareVersion"})
           /\ ChargerKeeps({"/FirmwareVersion"})
           /\ inverter'["/FirmwareVersion"] \in {inverter["/FirmwareVersion"], MatchObj}
           /\ charger'["/FirmwareVersion"] \in {charger["/FirmwareVersion"], MatchObj})]_vars

C11_Witness ==
    /\ last.outcome = "mf_skip3"
    /\ LastDgn = DGN_TP_DT
    /\ LastDgn \in MappedDgns
    /\ LastSrc \in DOMAIN xantrex_sources
    /\ frame_counter = 0
    /\ frame_count = 1

\* C19: a received frame shorter than the 8-byte header counts exactly one error,
\* changes neither the registry, the skip-set, the reassembly table, the unmapped
\* counters nor a sink, and the handler returns True.
C19_ShortFrameCountsOneError ==
    [][(Handled /\ StepFrame.rx = "short")
       => (/\ error_count' = error_count + 1
           /\ xantrex_sources' = xantrex_sources
           /\ SA_toSkip' = SA_toSkip
           /\ multiframe_assemblies' = multiframe_assemblies
           /\ unmapped_counts' = unmapped_counts
           /\ unmapped_seen' = unmapped_seen
           /\ SinksUnchanged
           /\ completed' = completed
           /\ frame_counter' = frame_counter
           /\ last'.ret = TRUE)]_vars

C19_Witness ==
    /\ last.frame.rx = "short"
    /\ last.outcome = "recv_error"
    /\ error_count = 1
    /\ frame_count = 2
    /\ DOMAIN multiframe_assemblies # {}

\* C20: every call of the frame handler returns True (no exception escapes it).
C20_HandlerAlwaysReturnsTrue == last.ret = TRUE

UnmappedCounterCounts ==
    [][(Handled /\ last'.outcome = "unmapped")
       => (/\ StepDgn \in DOMAIN unmapped_counts'
           /\ unmapped_counts'[StepDgn] =
                  (IF StepDgn \in DOMAIN unmapped_counts
                   THEN unmapped_counts[StepDgn] + 1 ELSE 1)
           /\ \A d \in DOMAIN unmapped_counts' \ {StepDgn} :
                  d \in DOMAIN unmapped_counts /\ unmapped_counts'[d] = unmapped_counts[d])]_vars

\* C13: every unmapped DGN received so far was logged as first seen exactly once,
\* and each frame of an unmapped DGN increases its occurrence counter by one,
\* however many distinct unmapped DGNs were received.
C13_FirstSeenLoggedOnce ==
    [][(Handled /\ last'.outcome = "unmapped")
       => (/\ unmapped_counts'[StepDgn] =
                  (IF StepDgn \in DOMAIN unmapped_counts
                   THEN unmapped_counts[StepDgn] + 1 ELSE 1)
           /\ \A d \in DOMAIN unmapped_counts' :
                  d \in DOMAIN logged' /\ logged'[d] = 1)]_vars

\* C14: the DGN -> count mapping of the unmapped tracker never holds more than
\* MAX_UNMAPPED_DGNS entries.
C14_CountMappingBounded == Cardinality(DOMAIN unmapped_counts) <= MAX_UNMAPPED_DGNS

\* the value a point of a sink holds
PointOf(svc, path) == IF svc = "inverter" THEN inverter[path] ELSE charger[path]
\* the value it holds after the step
PointAfter(svc, path) == IF svc = "inverter" THEN inverter'[path] ELSE charger'[path]

\* the raw field an entry decodes is in the payload and carries the reserved
\* sentinel (0xFF, 0xFFFF, 0x7F for a signed byte)
RawFieldIsSentinel(item, data) ==
    CASE item.f \in {"safe_u8", "var_u8", "var_u8x04", "inv_state"} ->
             Len(data) > item.off /\ data[item.off + 1] = 255
      [] item.f \in {"safe_u16", "var_u16"} ->
             Len(data) >= item.off + 2
             /\ data[item.off + 1] = 255 /\ data[item.off + 2] = 255
      [] item.f = "var_s8" -> Len(data) > item.off /\ data[item.off + 1] = 127
      [] item.f = "fw_version" ->
             Len(data) >= 6 /\ (data[5] = 255 \/ data[6] = 255)
      [] OTHER -> FALSE

\* the entries of the step's frame
StepItems == DgnItems(StepDgn)

\* the entry's point is as it was before the step
EntryNotWritten(item) == PointAfter(item.svc, item.path) = PointOf(item.svc, item.path)

\* the entry's point holds the entry's decoded value, unless the write failed
EntryWritten(item) ==
    PointAfter(item.svc, item.path) \in {Decode(item, StepData), PointOf(item.svc, item.path)}

\* the sentinel rule for the entries with a plain numeric decoder
SentinelSkippedByNumericDecoders ==
    [][(Handled /\ last'.outcome = "dispatched")
       => \A i \in 1..Len(StepItems) :
              LET item == StepItems[i] IN
              item.f \notin {"inv_state", "fw_version"} =>
                  /\ RawFieldIsSentinel(item, StepData) => EntryNotWritten(item)
                  /\ (/\ ~RawFieldIsSentinel(item, StepData)
                      /\ Decode(item, StepData) \notin {NoneV, Raised}
                      /\ QuirkAllows(StepDgn, StepSrc, item)) => EntryWritten(item)]_vars

\* C15: for every entry of a dispatched frame, a raw field carrying the sentinel
\* leaves the entry's point unwritten, and an entry whose field is a number is
\* written with its decoded scaled value (when its quirk rule allows it and the
\* write does not fail).
C15_SentinelFieldNotWritten ==
    [][(Handled /\ last'.outcome = "dispatched")
       => \A i \in 1..Len(StepItems) :
              LET item == StepItems[i] IN
              /\ RawFieldIsSentinel(item, StepData) => EntryNotWritten(item)
              /\ (/\ ~RawFieldIsSentinel(item, StepData)
                  /\ Decode(item, StepData) \notin {NoneV, Raised}
                  /\ QuirkAllows(StepDgn, StepSrc, item)) => EntryWritten(item)]_vars

\* C16: when the write of one entry of a frame fails, every other entry of the
\* frame whose decoder gives a value and whose quirk rule allows it is still
\* written: the points after the step are those of some set of failing writes,
\* each entry outside the set holding its decoded value and each entry in the set
\* its old value. (Every path of a dispatch entry is registered at start-up, so
\* an entry never targets an unregistered point.)
C16_FailedWriteKeepsFanOut ==
    [][(Handled /\ last'.outcome \in {"dispatched", "lastupdate_raised"})
       => \E sink \in DispatchSinkFailures(StepFrame) :
              \A i \in 1..Len(StepItems) :
                  LET item == StepItems[i]
                      value == Decode(item, StepData)
                  IN  /\ item.path \in DOMAIN Sink(Cur, item.svc)
                      /\ (value \notin {NoneV, Raised} /\ QuirkAllows(StepDgn, StepSrc, item))
                             => PointAfter(item.svc, item.path) =
                                    (IF <<item.svc, item.path>> \in sink
                                     THEN PointOf(item.svc, item.path) ELSE value)]_vars

\* the first entry's write to the inverter failed; the charger's and the later
\* entries were written
C16_Witness ==
    /\ frame_count = 1
    /\ last.outcome = "dispatched"
    /\ LastDgn = DGN_GRID_DETECTION
    /\ LastData = <<1, 255, 3>>
    /\ inverter["/Ac/Grid/Status"] = NoneV
    /\ inverter["/Ac/Grid/FaultFlags"] = NoneV
    /\ charger["/Ac/Grid/Status"] = Num(1000)
    /\ charger["/Ac/Grid/FaultFlags"] = Num(3000)
    /\ charger["/Ac/Grid/PhaseAlignment"] = NoneV

\* the entries of the step's frame whose decoder raises on the frame's data
StepRaising == {i \in 1..Len(StepItems) : Decode(StepItems[i], StepData) = Raised}

\* C17: for every entry of a dispatched frame whose decoder raises, the error
\* counter goes up by one (by the number of such entries in all), the entry's
\* point is not written, and every other entry of the frame is executed: it is
\* written when its decoder gives a value, its quirk rule allows it and the write
\* does not fail.
C17_DecoderFailureCountedAndSkipped ==
    [][(Handled /\ last'.outcome = "dispatched")
       => (/\ error_count' = error_count + Cardinality(StepRaising)
           /\ \A i \in StepRaising : EntryNotWritten(StepItems[i])
           /\ \E sink \in DispatchSinkFailures(StepFrame) :
                  \A i \in (1..Len(StepItems)) \ StepRaising :
                      LET item == StepItems[i]
                          value == Decode(item, StepData)
                      IN  (value # NoneV /\ QuirkAllows(StepDgn, StepSrc, item))
                              => PointAfter(item.svc, item.path) =
                                     (IF <<item.svc, item.path>> \in sink
                                      THEN PointOf(item.svc, item.path) ELSE value))]_vars

\* 0x1FFC9 data 01 FF 32 (/Soc raises, /Battery/Soh after it is written), then
\* 0x1FEEB with one data byte (/Mgmt/ManufacturerCode raises on both services)
C17_Witness ==
    /\ frame_count = 2
    /\ last.outcome = "dispatched"
    /\ LastDgn = DGN_PRODUCT_ID
    /\ LastData = <<7>>
    /\ error_count = 3
    /\ charger["/Soc"] = NoneV
    /\ charger["/Battery/Instance"] = Num(1000)
    /\ charger["/Battery/Soh"] = Num(20000)
    /\ inverter["/Mgmt/ManufacturerCode"] = Num(119000)
    /\ charger["/Mgmt/ManufacturerCode"] = Num(119000)

\* the (power, voltage, current) points of compute_power
PowerTriples ==
    {<<"/Dc/0/Power", "/Dc/0/Voltage", "/Dc/0/Current">>,
     <<"/Ac/In/L1/P", "/Ac/In/L1/V", "/Ac/In/L1/I">>,
     <<"/Ac/ActiveIn/L1/P", "/Ac/ActiveIn/L1/V", "/Ac/ActiveIn/L1/I">>}

\* C18: after a frame that runs the derived-value engine, for each triple whose
\* points the inverter service exports: when the voltage and the current point hold
\* sunk numbers V and I, the power point holds V x I rounded to one decimal; when
\* one of them holds none, the power point is as it was.
C18_PowerIsVoltageTimesCurrent ==
    [][(Handled /\ last'.outcome = "dispatched" /\ StepDgn \in DERIVED_DGNS)
       => \A tr \in PowerTriples :
              (tr[1] \in DOMAIN inverter /\ tr[2] \in DOMAIN inverter /\ tr[3] \in DOMAIN inverter)
              => LET v == inverter'[tr[2]]
                     c == inverter'[tr[3]]
                 IN  IF v # NoneV /\ c # NoneV
                     THEN inverter'[tr[1]] = Num(Round1(v.v * c.v))
                     ELSE inverter'[tr[1]] = inverter[tr[1]]]_vars

\* with either source point empty no power is written
PowerNotWrittenWithoutSources ==
    [][(Handled /\ last'.outcome = "dispatched" /\ StepDgn \in DERIVED_DGNS)
       => \A tr \in PowerTriples :
              (tr[1] \in DOMAIN inverter /\ tr[2] \in DOMAIN inverter /\ tr[3] \in DOMAIN inverter)
              => ((inverter'[tr[2]] = NoneV \/ inverter'[tr[3]] = NoneV)
                     => inverter'[tr[1]] = inverter[tr[1]])]_vars

\* C21: a frame of DGN 0x1FFCA from a registered source whose AC-input voltage
\* (16 bits at offset 1, scale 0.05) is not available or at most 90 V is discarded
\* before dispatch: no point of either sink changes (so no entry and no derived
\* value is written), the state-check counter does not advance, and the handler
\* returns True.
C21_LowVoltageFfcaDiscarded ==
    [][(/\ Handled
        /\ HasData(StepFrame)
        /\ StepDgn = DGN_FFCA
        /\ StepSrc \in DOMAIN xantrex_sources
        /\ LET v == safe_u16(StepData, 1, 50) IN v = NoneV \/ v.v <= 90000)
       => (/\ last'.outcome = "ffca_skipped"
           /\ last'.ret = TRUE
           /\ SinksUnchanged
           /\ frame_counter' = frame_counter
           /\ error_count' = error_count)]_vars

\* a 120 V frame was dispatched, then a frame of exactly 90 V was discarded
C21_Witness ==
    /\ frame_count = 2
    /\ last.outcome = "ffca_skipped"
    /\ LastDgn = DGN_FFCA
    /\ safe_u16(LastData, 1, 50) = Num(90000)
    /\ inverter["/Ac/In/L1/V"] = Num(120000)
    /\ frame_counter = 1

\* C22: a frame of DGN 0x1FFD4 writes points only when its source is 0xD0, and
\* then only on the inverter sink (its own entries and the update stamp); from
\* any other source it changes no point of either sink.
C22_InverterStatusOnlyFromD0 ==
    [][(Handled /\ HasData(StepFrame) /\ StepDgn = DGN_FFD4)
       => (/\ charger' = charger
           /\ StepSrc # SA_D0 => inverter' = inverter
           /\ StepSrc = SA_D0 =>
                  /\ InverterKeeps({"/State", "/Ac/Out/LoadPercent", "/Mgmt/LastUpdate"})
                  /\ inverter'["/State"] = InverterState(StepData)
                  /\ inverter'["/Ac/Out/LoadPercent"] \in
                         {safe_u8(StepData, 1, 1000), inverter["/Ac/Out/LoadPercent"]})]_vars

\* a registered third source sent 0x1FFD4 and nothing was written
C22_Witness ==
    /\ frame_count = 2
    /\ SA_OTHER \in DOMAIN xantrex_sources
    /\ LastSrc = SA_OTHER
    /\ LastDgn = DGN_FFD4
    /\ last.outcome = "dispatched"
    /\ inverter["/State"] = NoneV
    /\ inverter["/Ac/Out/LoadPercent"] = NoneV
    /\ inverter["/Mgmt/LastUpdate"] = Str("")

\* the points of 0x1FFD7 other than the frequency points
Ffd7OtherPaths == {"/Ac/Out/L1/V", "/Ac/Out/L1/I", "/Ac/Out/V", "/Ac/Out/I"}

\* C23: a frame of DGN 0x1FFD7 from 0xD0 writes only the frequency points
\* (/Ac/Out/L1/F, /Ac/Out/F), from the primary source 0x42 only the other points
\* of the message, and from any other source no point; the charger sink is never
\* written.
C23_FrequencyFromD0RestFromPrimary ==
    [][(Handled /\ HasData(StepFrame) /\ StepDgn = DGN_FFD7)
       => (/\ charger' = charger
           /\ (StepSrc = SA_D0) =>
                  /\ InverterKeeps(FrequencyPaths \cup {"/Mgmt/LastUpdate"})
                  /\ \A p \in FrequencyPaths :
                         inverter'[p] \in {safe_u16_be(StepData, 5, 2000), inverter[p]}
           /\ (StepSrc = SA_PRIMARY) =>
                  /\ InverterKeeps(Ffd7OtherPaths \cup {"/Mgmt/LastUpdate"})
                  /\ \A p \in {"/Ac/Out/L1/V", "/Ac/Out/V"} :
                         inverter'[p] \in {safe_u16(StepData, 1, 50), inverter[p]}
                  /\ \A p \in {"/Ac/Out/L1/I", "/Ac/Out/I"} :
                         inverter'[p] \in {safe_u8(StepData, 3, 100), inverter[p]}
           /\ (StepSrc \notin {SA_D0, SA_PRIMARY}) => inverter' = inverter)]_vars

\* 0x42 sent the message first (voltage and current written, no frequency), then
\* 0xD0 (frequency written)
C23_Witness ==
    /\ frame_count = 2
    /\ LastDgn = DGN_FFD7
    /\ LastSrc = SA_D0
    /\ inverter["/Ac/Out/L1/F"] = Num(60000)
    /\ inverter["/Ac/Out/F"] = Num(60000)
    /\ inverter["/Ac/Out/L1/V"] = Num(120000)
    /\ inverter["/Ac/Out/I"] = Num(5000)

\* the step is a dispatched frame at whose end the /State derivations run
StateCheckRuns ==
    /\ Handled
    /\ last'.outcome = "dispatched"
    /\ frame_counter + 1 >= STATE_CHECK_EVERY

\* C24: when the state evaluation runs while the inverter's grid-current point is
\* non-zero and its battery-current point holds a negative number, the inverter's
\* /State is 10 afterwards; otherwise the evaluation leaves /State as it was.
C24_AssistingSetsState10 ==
    [][StateCheckRuns
       => LET grid_current == inverter'["/Ac/Grid/L1/I"]
              battery_current == inverter'["/Dc/0/Current"]
          IN  IF /\ grid_current # NoneV /\ grid_current.v # 0
                 /\ battery_current # NoneV /\ battery_current.v < 0
              THEN inverter'["/State"] = Num(STATE_ASSISTING * 1000)
              ELSE inverter'["/State"] = inverter["/State"]]_vars

\* C25: when the state evaluation runs after a 0x1FFBE frame sank a true
\* pass-through-active value, /State is 8 afterwards (on the service the code
\* writes it to, or on the one the value was sunk on); a false or never-sunk value
\* leaves /State as it was.
C25_PassThroughSetsState8 ==
    [][StateCheckRuns
       => LET active == inverter'["/Ac/PassThrough/Active"] IN
          IF active # NoneV /\ active.v # 0
          THEN \/ charger'["/State"] = Num(STATE_PASSTHRU * 1000)
               \/ inverter'["/State"] = Num(STATE_PASSTHRU * 1000)
          ELSE charger'["/State"] = charger["/State"]]_vars

\* the groups of compute_totals: voltage, current, total power, total current,
\* alias power, alias current
TotalsGroups ==
    {<<"/Ac/In/L1/V", "/Ac/In/L1/I", "/Ac/In/P", "/Ac/In/I", "/Ac/Grid/P", "/Ac/Grid/I">>,
     <<"/Ac/Out/L1/V", "/Ac/Out/L1/I", "/Ac/Out/P", "/Ac/Out/I",
       "/Ac/Out/Total/P", "/Ac/Out/Total/I">>}

\* after a frame that runs the derived-value engine, a group whose voltage and
\* current are present and non-zero has its totals written and mirrored
TotalsMirrored(g) ==
    LET v == inverter'[g[1]]
        c == inverter'[g[2]]
    IN  (v # NoneV /\ c # NoneV /\ v.v # 0 /\ c.v # 0)
        => /\ inverter'[g[3]] = Num(Round1(v.v * c.v))
           /\ inverter'[g[4]] = Num(Round1Milli(c.v))
           /\ g[5] \in DOMAIN inverter' /\ g[6] \in DOMAIN inverter'
           /\ inverter'[g[5]] = inverter'[g[3]]
           /\ inverter'[g[6]] = inverter'[g[4]]

DerivedEngineRuns == Handled /\ last'.outcome = "dispatched" /\ StepDgn \in DERIVED_DGNS

\* C26: whenever the totals pass writes the total power and current of /Ac/In or
\* /Ac/Out, the /P and /I points of the group's alias (/Ac/Grid, /Ac/Out/Total)
\* hold the same two values after the pass.
C26_TotalsMirroredToAliases ==
    [][DerivedEngineRuns => \A g \in TotalsGroups : TotalsMirrored(g)]_vars

\* the /Ac/Out group alone
TotalsMirroredForAcOut ==
    [][DerivedEngineRuns
       => \A g \in TotalsGroups : g[3] = "/Ac/Out/P" => TotalsMirrored(g)]_vars


\* C27: every decoder returns "not available" exactly when the bytes of its field are
\* the reserved pattern of its width and signedness (0xFF / 0x7F, 0xFFFF / 0x7FFF,
\* 0xFFFFFFFF / 0x7FFFFFFF in the byte order it reads), whatever the scale and the
\* offset, and returns a number for every other field.
ReservedField(f) ==
    CASE f = "safe_u8" -> <<255>>
      [] f = "safe_s8" -> <<127>>
      [] f \in {"safe_u16", "safe_u16_be"} -> <<255, 255>>
      [] f = "safe_s16" -> <<255, 127>>
      [] f = "safe_s16_be" -> <<127, 255>>
      [] f = "safe_u32" -> <<255, 255, 255, 255>>
      [] OTHER -> <<255, 255, 255, 127>>

ProbeField == SubSeq(probe.data, probe.offset + 1, probe.offset + FieldWidth(probe.f))

Decoded == probe.kind = "decode" /\ probe.out # Pending

Decomposed == probe.kind = "can_id" /\ probe.out # Pending

C28_CanIdRoundTrips ==
    Decomposed =>
        /\ probe.out.pgn = probe.pgn
        /\ probe.out.src = probe.src
        /\ probe.out.dgn = probe.out.pgn

C28_Witness ==
    /\ Decomposed
    /\ probe.flags = 7
    /\ probe.prio = 7
    /\ probe.pgn = 262143
    /\ probe.src = 255
    /\ probe.out.pgn = 262143
    /\ probe.out.src = 255

\* C29: a recognized announce (control byte 0x20, 8 data bytes) from a source that has
\* a reassembly entry replaces the entry by one with an empty buffer, expected
\* sequence 1, the announced length, segment count and target PGN and a deadline 2 s
\* ahead; a buffer otherwise only grows by the bytes after the sequence byte of a
\* segment of its source, and a completed payload is the buffer plus the bytes of the
\* completing segment, cut to the announced length: no byte received before the
\* announce is part of a payload completed after it.
RecognizedAnnounce ==
    /\ HasData(StepFrame)
    /\ StepDgn = DGN_TP_CM
    /\ Len(StepData) >= 8
    /\ StepData[1] = 32

C29_AnnounceReplacesEntry ==
    [][Handled =>
        /\ (RecognizedAnnounce /\ StepSrc \in DOMAIN multiframe_assemblies)
           => (/\ StepSrc \in DOMAIN multiframe_assemblies'
               /\ multiframe_assemblies'[StepSrc] =
                      [len |-> StepData[2] + 256 * StepData[3],
                       need |-> StepData[4],
                       seq |-> 1,
                       pgn |-> StepData[6] + 256 * StepData[7] + 65536 * StepData[8],
                       buf |-> << >>,
                       deadline |-> now + 2]
               /\ completed' = completed)
        /\ \A src \in DOMAIN multiframe_assemblies \cap DOMAIN multiframe_assemblies' :
               multiframe_assemblies'[src].buf # multiframe_assemblies[src].buf
               => (/\ src = StepSrc
                   /\ HasData(StepFrame)
                   /\ \/ RecognizedAnnounce /\ multiframe_assemblies'[src].buf = << >>
                      \/ /\ StepDgn = DGN_TP_DT
                         /\ multiframe_assemblies'[src].buf =
                                multiframe_assemblies[src].buf \o Tail(StepData))
        /\ completed' # completed
           => (/\ HasData(StepFrame)
               /\ StepDgn = DGN_TP_DT
               /\ StepSrc \in DOMAIN multiframe_assemblies
               /\ completed' = Append(completed,
                      [src |-> StepSrc,
                       pgn |-> multiframe_assemblies[StepSrc].pgn,
                       payload |-> Slice(multiframe_assemblies[StepSrc].buf \o Tail(StepData),
                                         0, multiframe_assemblies[StepSrc].len)]))]_vars

C29_Witness ==
    /\ last.outcome = "mf_restart"
    /\ LastSrc = SA_PRIMARY
    /\ LastData = Announce(BAM, 5, 1)
    /\ frame_count = 3
    /\ multiframe_assemblies[SA_PRIMARY].len = 5
    /\ multiframe_assemblies[SA_PRIMARY].need = 1
    /\ multiframe_assemblies[SA_PRIMARY].seq = 1
    /\ multiframe_assemblies[SA_PRIMARY].buf = << >>
    /\ multiframe_assemblies[SA_PRIMARY].deadline = now + TIMEOUT

\* a payload completed right after a replacing announce holds bytes of the segment
\* that followed the announce only
RestartedPayloadIsFresh ==
    (/\ frame_count = 4
     /\ last.outcome \in {"mf_done_xantrex", "mf_done_other", "mf_done_raised"}
     /\ Len(completed) = 1
     /\ Len(completed[1].payload) = 5)
    => completed[1].payload = Slice(Tail(LastData), 0, 5)

\* C30: an announce whose control byte is not 0x20 or that has fewer than 8 data
\* bytes, and a data segment from a source without a reassembly entry, change neither
\* the reassembly table (an entry of that source included), the registry, the
\* skip-set nor any point of a sink, complete no payload and return True.
IgnoredSegmentationFrame ==
    /\ HasData(StepFrame)
    /\ \/ StepDgn = DGN_TP_CM /\ (Len(StepData) < 8 \/ StepData[1] # 32)
       \/ StepDgn = DGN_TP_DT /\ StepSrc \notin DOMAIN multiframe_assemblies

C30_IgnoredSegmentationChangesNothing ==
    [][(Handled /\ IgnoredSegmentationFrame)
       => (/\ multiframe_assemblies' = multiframe_assemblies
           /\ xantrex_sources' = xantrex_sources
           /\ SA_toSkip' = SA_toSkip
           /\ SinksUnchanged
           /\ completed' = completed
           /\ last'.ret = TRUE)]_vars

C30_Witness ==
    /\ last.outcome = "mf_skip2"
    /\ LastSrc = SA_PRIMARY
    /\ Len(LastData) = 7
    /\ LastData[1] = BAM
    /\ frame_count = 2
    /\ SA_PRIMARY \in DOMAIN multiframe_assemblies
    /\ multiframe_assemblies[SA_PRIMARY].len = 14

\* C31: a data segment with fewer than 2 data bytes from a source that has a
\* reassembly entry removes the entry and delivers nothing, and on every step that
\* drops an entry without completing it (timeout, short segment, sequence mismatch)
\* no payload is classified, no sink is written and neither the registry nor the
\* skip-set changes.
NothingDelivered ==
    /\ completed' = completed
    /\ SinksUnchanged
    /\ xantrex_sources' = xantrex_sources
    /\ SA_toSkip' = SA_toSkip

EntryDropped ==
    /\ StepFrame.rx = "frame"
    /\ StepDgn = DGN_TP_DT
    /\ StepSrc \in DOMAIN multiframe_assemblies
    /\ StepSrc \notin DOMAIN multiframe_assemblies'
    /\ completed' = completed

C31_ShortSegmentDrops ==
    [][Handled =>
        /\ (/\ StepFrame.rx = "frame"
            /\ StepDgn = DGN_TP_DT
            /\ Len(StepData) < 2
            /\ StepSrc \in DOMAIN multiframe_assemblies)
           => (StepSrc \notin DOMAIN multiframe_assemblies' /\ NothingDelivered)
        /\ EntryDropped => NothingDelivered]_vars

\* the part of C31 about segments of one data byte and about the drop paths
DropPathsDeliverNothing ==
    [][Handled =>
        /\ (/\ StepFrame.rx = "frame"
            /\ StepDgn = DGN_TP_DT
            /\ Len(StepData) = 1
            /\ StepSrc \in DOMAIN multiframe_assemblies)
           => (StepSrc \notin DOMAIN multiframe_assemblies' /\ NothingDelivered)
        /\ EntryDropped => NothingDelivered]_vars

\* C32: the reassembly entry of a source is created, modified or removed only by a
\* step that handles a segmentation frame (0x0ECFF or 0x0EBFF) of that source: frames
\* of other sources, frames of other DGNs, the heartbeat and the passing of time
\* leave it as it is, also when its deadline has passed.
EntryChanged(src) ==
    \/ src \in DOMAIN multiframe_assemblies /\ src \notin DOMAIN multiframe_assemblies'
    \/ src \notin DOMAIN multiframe_assemblies /\ src \in DOMAIN multiframe_assemblies'
    \/ /\ src \in DOMAIN multiframe_assemblies
       /\ src \in DOMAIN multiframe_assemblies'
       /\ multiframe_assemblies'[src] # multiframe_assemblies[src]

C32_EntryChangedOnlyByItsSource ==
    [][\A src \in DOMAIN multiframe_assemblies \cup DOMAIN multiframe_assemblies' :
           EntryChanged(src)
           => (/\ Handled
               /\ HasData(StepFrame)
               /\ IsSegmentationDgn(StepDgn)
               /\ StepSrc = src)]_vars

C32_Witness ==
    /\ SA_PRIMARY \in DOMAIN multiframe_assemblies
    /\ now > multiframe_assemblies[SA_PRIMARY].deadline
    /\ heartbeat_counter = 2
    /\ inverter["/Mgmt/LastUpdate"] = Num(now * 1000)
    /\ LastSrc = SA_D0
    /\ last.outcome = "mf_done_xantrex"
    /\ frame_count = 4

\* C33: a call of send_pgn_request ends; it makes at most 6 send attempts; when every
\* attempt failed with OSError it has made exactly 6 and returns without having sent;
\* and the attempt that succeeds is its last one.
SendCall == probe.kind = "send"

C33_SendRetriesBounded ==
    /\ [](SendCall => probe.attempts <= 6)
    /\ []((SendCall /\ probe.pc = "done" /\ ~probe.sent /\ probe.sleeps = probe.attempts)
             => probe.attempts = 6)
    /\ []((SendCall /\ probe.sent) => (probe.pc = "done" /\ probe.ret = "True"))
    /\ [][(SendCall /\ probe.pc = "done") => probe' = probe]_vars
    /\ <>(SendCall /\ probe.pc = "done")

C33_Witness ==
    /\ SendCall
    /\ probe.pc = "done"
    /\ probe.attempts = 6
    /\ probe.sleeps = 6
    /\ ~probe.sent

\* C34: the error counter never exceeds the number of frames received, and the
\* "decoded successfully" figure of the shutdown summary is never negative.
C34_ErrorsBoundedByFrames ==
    /\ error_count <= frame_count
    /\ summary # NoSummary => summary.decoded >= 0

\* what holds instead: a frame adds one error per entry whose decoder raises, or one
\* for a failed receive, and the summary figures add up to the frames received
ErrorsCountedPerEntry ==
    [][Handled =>
          error_count' - error_count =
              (IF last'.outcome \in {"dispatched", "lastupdate_raised"}
               THEN Cardinality(StepRaising)
               ELSE IF last'.outcome \in {"recv_error", "no_data"} THEN 1 ELSE 0)]_vars

\* C35: every source that has a reassembly entry is an address of the registry, so
\* there are never more reassembly entries than registered sources.
C35_EntriesOnlyForRegisteredSources ==
    /\ DOMAIN multiframe_assemblies \subseteq DOMAIN xantrex_sources
    /\ Cardinality(DOMAIN multiframe_assemblies) <= Cardinality(DOMAIN xantrex_sources)

\* 0x80 announces while unknown (dropped), claims, announces again: two entries
C35_Witness ==
    /\ DOMAIN multiframe_assemblies = {SA_PRIMARY, SA_OTHER}
    /\ DOMAIN xantrex_sources = {SA_PRIMARY, SA_D0, SA_OTHER}
    /\ frame_count = 4
    /\ LastSrc = SA_OTHER
    /\ last.outcome = "mf_start"

\* C36: no source of the skip-set has a reassembly entry.
C36_SkippedSourceHasNoEntry == SA_toSkip \cap DOMAIN multiframe_assemblies = {}

\* a source of the skip-set has announced again, while another source has an entry
C36_Witness ==
    /\ SA_toSkip # {}
    /\ last.outcome = "mf_skip1"
    /\ LastDgn = DGN_TP_CM
    /\ Len(LastData) = 8
    /\ LastData[1] = BAM
    /\ LastSrc \in SA_toSkip
    /\ frame_count = 3
    /\ multiframe_assemblies = << >>

\* C37: every reassembly entry has a remaining-segment count of at least 1.
C37_RemainingCountPositive ==
    \A src \in DOMAIN multiframe_assemblies : multiframe_assemblies[src].need >= 1

\* what holds instead: an entry counts down from the announced number of segments,
\* one per accepted segment, and completes only on reaching exactly 0
RemainingCountsDown ==
    [][Handled =>
        /\ \A src \in DOMAIN multiframe_assemblies' :
               \/ /\ src \in DOMAIN multiframe_assemblies
                  /\ multiframe_assemblies'[src].need \in
                         {multiframe_assemblies[src].need, multiframe_assemblies[src].need - 1}
               \/ /\ src = StepSrc
                  /\ StepDgn = DGN_TP_CM
                  /\ multiframe_assemblies'[src].need = StepData[4]
        /\ completed' # completed => multiframe_assemblies[StepSrc].need = 1]_vars

\* C38: every completed payload has exactly the length its announce declared.
C38_PayloadHasAnnouncedLength ==
    [][(Handled /\ completed' # completed)
       => Len(completed'[Len(completed')].payload) = multiframe_assemblies[StepSrc].len]_vars

\* what holds instead: the payload is the buffered bytes cut to the announced length
PayloadAtMostAnnouncedLength ==
    [][(Handled /\ completed' # completed)
       => Len(completed'[Len(completed')].payload) =
              Min(multiframe_assemblies[StepSrc].len,
                  Len(multiframe_assemblies[StepSrc].buf) + Len(StepData) - 1)]_vars

\* C39: an address of the registry keeps the role first recorded for it: no step
\* changes it, neither an identity claim from that address with another function
\* code nor a completed vendor-marked payload from it, and 0x42 and 0xD0 keep the
\* roles 129 and 128 they start with.
C39_RoleNeverChanges ==
    /\ [][\A src \in DOMAIN xantrex_sources :
              /\ src \in DOMAIN xantrex_sources'
              /\ xantrex_sources'[src] = xantrex_sources[src]]_vars
    /\ [](xantrex_sources[SA_PRIMARY] = 129 /\ xantrex_sources[SA_D0] = 128)

\* 0xD0 (role 128) completed a payload with the vendor marker and then claimed
\* function 129
C39_Witness ==
    /\ frame_count = 3
    /\ Len(completed) = 1
    /\ completed[1].src = SA_D0
    /\ HasXantrexMarker(completed[1].payload)
    /\ IsClaimDgn(LastDgn)
    /\ LastSrc = SA_D0
    /\ LastData[6] = 129
    /\ xantrex_sources[SA_D0] = 128

\* the step handles a frame that completes the table dispatch
DispatchCompletes == Handled /\ last'.outcome = "dispatched"

=============================================================================
